---- MODULE Spec2Model ----
(***************************************************************************)
(* Model of the xpbd-core particle solver (GPU-particles-web).            *)
(*                                                                         *)
(* Numbers.  The code works on f32 and glam::Vec3.  The model works on     *)
(* integers in fixed point: a length is counted in units of 1/LenScale of *)
(* a world unit (a Vec3 is a triple of such integers), a time in          *)
(* milliseconds, a velocity in length units per second, and a division    *)
(* rounds toward zero.  The thresholds of the code (1e-8, 1e-10, 1e-9)    *)
(* lie strictly between 0 and the smallest non-zero magnitude of their    *)
(* operand, so a test "x < eps" of the code is the test "x < 1" here.     *)
(***************************************************************************)
EXTENDS Integers, Sequences, FiniteSets, TLC

\* ------------------------------------------------------------------------
\* Bounds of the model
\* ------------------------------------------------------------------------
MaxParticles == 2
MaxTableBits == 2
MaxSteps == 2
MaxHostCalls == 1

\* calls on the solver's topology interface in one behaviour
MaxTopologyCalls == 3

\* ------------------------------------------------------------------------
\* Scalar and vector helpers (glam::Vec3 on integers)
\* ------------------------------------------------------------------------
Abs(x) == IF x < 0 THEN -x ELSE x

Sgn(x) == IF x < 0 THEN -1 ELSE IF x > 0 THEN 1 ELSE 0

\* f32 division, rounded toward zero
DivT(a, b) == Sgn(a) * Sgn(b) * (Abs(a) \div Abs(b))

RECURSIVE Pow2(_)
Pow2(k) == IF k = 0 THEN 1 ELSE 2 * Pow2(k - 1)

\* floor of the square root, by bisection of lo .. hi
RECURSIVE ISqrtIn(_, _, _)
ISqrtIn(n, lo, hi) ==
    IF lo >= hi THEN lo
    ELSE LET mid == (lo + hi + 1) \div 2
         IN  IF mid <= n \div mid THEN ISqrtIn(n, mid, hi)
                                  ELSE ISqrtIn(n, lo, mid - 1)

ISqrt(n) == ISqrtIn(n, 0, n)

ZERO == <<0, 0, 0>>

VAdd(a, b) == <<a[1] + b[1], a[2] + b[2], a[3] + b[3]>>

VSub(a, b) == <<a[1] - b[1], a[2] - b[2], a[3] - b[3]>>

VScale(a, s) == <<a[1] * s, a[2] * s, a[3] * s>>

VDivT(a, s) == <<DivT(a[1], s), DivT(a[2], s), DivT(a[3], s)>>

Dot(a, b) == a[1] * b[1] + a[2] * b[2] + a[3] * b[3]

Length(a) == ISqrt(Dot(a, a))

\* the indices of a Vec of length n, as the code's 0..n
Idx(n) == 0 .. (n - 1)

Range(s) == {s[k] : k \in 1 .. Len(s)}

\* ------------------------------------------------------------------------
\* SpatialHashGrid (grid.rs)
\* ------------------------------------------------------------------------
\* the three primes of hash_cell
P1 == 73856093
P2 == 19349663
P3 == 83492791

\* hash_cell computes on u32 and reduces modulo table_size.  Every table
\* size of the model divides 2^HashBits, so the low HashBits bits of the
\* products decide the result and the arithmetic is carried on those bits.
HashBits == 12

HashMod == Pow2(HashBits)

TableSizes == {Pow2(k) : k \in 0 .. MaxTableBits}

RECURSIVE Xor(_, _)
Xor(a, b) ==
    IF a = 0 THEN b
    ELSE IF b = 0 THEN a
    ELSE (((a % 2) + (b % 2)) % 2) + 2 * Xor(a \div 2, b \div 2)

\* (c as u32).wrapping_mul(p), low HashBits bits
wrapping_mul(c, p) == ((c % HashMod) * (p % HashMod)) % HashMod

hash_cell(table_size, cx, cy, cz) ==
    Xor(Xor(wrapping_mul(cx, P1), wrapping_mul(cy, P2)), wrapping_mul(cz, P3))
        % table_size

\* floor(pos * inv_cell_size) on every axis
cell_coords(g, pos) ==
    <<pos[1] \div g.cell_size, pos[2] \div g.cell_size, pos[3] \div g.cell_size>>

SpatialHashGrid_new(cell_size, table_size, max_particles) ==
    [ cell_size       |-> cell_size,
      table_size      |-> table_size,
      cell_count      |-> [h \in Idx(table_size) |-> 0],
      cell_start      |-> [h \in Idx(table_size) |-> 0],
      sorted_indices  |-> [k \in Idx(max_particles) |-> 0],
      particle_hashes |-> [k \in Idx(max_particles) |-> 0] ]

\* build, pass 2: hash every particle, store the hash, count it
RECURSIVE build_count(_, _, _, _)
build_count(g, positions, i, count) ==
    IF i >= count THEN g
    ELSE LET c == cell_coords(g, positions[i])
             h == hash_cell(g.table_size, c[1], c[2], c[3])
         IN  build_count(
                 [g EXCEPT !.particle_hashes[i] = h,
                           !.cell_count[h] = @ + 1],
                 positions, i + 1, count)

\* a prefix pass that leaves every bucket starting where it did before
build_prefix_flat(g, k) == g

\* build, pass 3: prefix sum of cell_count into cell_start
RECURSIVE build_prefix(_, _)
build_prefix(g, k) ==
    IF k >= g.table_size THEN g
    ELSE build_prefix(
             [g EXCEPT !.cell_start[k] =
                 g.cell_start[k - 1] + g.cell_count[k - 1]],
             k + 1)

\* build, pass 5: scatter the particle indices
RECURSIVE build_scatter(_, _, _)
build_scatter(g, i, count) ==
    IF i >= count THEN g
    ELSE LET h   == g.particle_hashes[i]
             idx == g.cell_start[h] + g.cell_count[h]
         IN  build_scatter(
                 [g EXCEPT !.sorted_indices[idx] = i,
                           !.cell_count[h] = @ + 1],
                 i + 1, count)

clear_cell_count(g) == [g EXCEPT !.cell_count = [h \in Idx(g.table_size) |-> 0]]

build(g, positions, count) ==
    LET g1 == clear_cell_count(g)
        g2 == build_count(g1, positions, 0, count)
        g3 == build_prefix([g2 EXCEPT !.cell_start[0] = 0], 1)
        g4 == clear_cell_count(g3)
    IN  build_scatter(g4, 0, count)

\* the particles of one bucket, in the order the callback receives them
bucket_slice(g, start, end) ==
    [k \in 1 .. (end - start) |-> g.sorted_indices[start + k - 1]]

\* a query that looks into the position's own cell only
block_offset_own_cell(n) == <<0, 0, 0>>

\* the n-th cell of the 3x3x3 block, in the order of the nested loops
block_offset(n) == <<(n \div 9) - 1, ((n \div 3) % 3) - 1, (n % 3) - 1>>

\* the indices reported for the n-th cell of the block around cell c
query_cell(g, c, n) ==
    LET d     == block_offset(n)
        h     == hash_cell(g.table_size, c[1] + d[1], c[2] + d[2], c[3] + d[3])
        start == g.cell_start[h]
        end   == start + g.cell_count[h]
    IN  bucket_slice(g, start, end)

\* the indices reported for the cells lo .. hi - 1 of the block, in order
RECURSIVE query_block(_, _, _, _)
query_block(g, c, lo, hi) ==
    IF hi - lo = 1 THEN query_cell(g, c, lo)
    ELSE LET mid == (lo + hi) \div 2
         IN  query_block(g, c, lo, mid) \o query_block(g, c, mid, hi)

\* the sequence of indices query_neighbors passes to its callback
query_neighbors(g, pos) == query_block(g, cell_coords(g, pos), 0, 27)

\* ------------------------------------------------------------------------
\* Contact detection (constraints/contact.rs)
\* ------------------------------------------------------------------------
\* fixed-point one: a unit vector has length One
One == 8

\* the thresholds 1e-6 .. 1e-10 of the code: "x < eps" is "x < Tiny" and
\* "x > eps" is "x >= Tiny"
Tiny == 1

\* the test of the callback of detect_contacts for a reported index j
detect_accepts(positions, radii, i, j) ==
    LET dist == Length(VSub(positions[j], positions[i]))
    IN  /\ ~(j <= i)
        /\ dist < radii[i] + radii[j]
        /\ dist >= Tiny

\* the contact the callback pushes for the pair (i, j)
detect_contact(positions, radii, i, j) ==
    LET diff == VSub(positions[j], positions[i])
        dist == Length(diff)
    IN  [ i           |-> i,
          j           |-> j,
          normal      |-> VDivT(VScale(diff, One), dist),
          penetration |-> (radii[i] + radii[j]) - dist ]

\* the contacts pushed while the neighbours of particle i are reported
detect_callback(positions, radii, i, js) ==
    LET kept == SelectSeq(js, LAMBDA j : detect_accepts(positions, radii, i, j))
    IN  [k \in 1 .. Len(kept) |-> detect_contact(positions, radii, i, kept[k])]

RECURSIVE detect_loop(_, _, _, _, _)
detect_loop(positions, radii, i, count, g) ==
    IF i >= count THEN <<>>
    ELSE detect_callback(positions, radii, i, query_neighbors(g, positions[i]))
             \o detect_loop(positions, radii, i + 1, count, g)

detect_contacts(positions, radii, count, g) ==
    detect_loop(positions, radii, 0, count, g)

\* ------------------------------------------------------------------------
\* ParticleSet (particle.rs)
\* ------------------------------------------------------------------------
Phases == {"Free", "Fluid", "Cloth", "Rigid", "Granular", "Gas", "Static"}

\* length units per world unit
LenScale == 40

\* milliseconds per second
MsPerSec == 1000

\* the default radius 0.05, in length units
DefaultRadius == 2

ParticleSet_new(count) ==
    [ count             |-> count,
      position          |-> [i \in Idx(count) |-> ZERO],
      velocity          |-> [i \in Idx(count) |-> ZERO],
      radius            |-> [i \in Idx(count) |-> DefaultRadius],
      hash              |-> [i \in Idx(count) |-> 0],
      target_pos        |-> [i \in Idx(count) |-> ZERO],
      target_weight     |-> [i \in Idx(count) |-> 0],
      predicted         |-> [i \in Idx(count) |-> ZERO],
      corrections       |-> [i \in Idx(count) |-> ZERO],
      correction_counts |-> [i \in Idx(count) |-> 0],
      phase             |-> [i \in Idx(count) |-> "Free"],
      lambda            |-> [i \in Idx(count) |-> 0],
      density           |-> [i \in Idx(count) |-> 0],
      charge            |-> [i \in Idx(count) |-> 0],
      inv_mass          |-> [i \in Idx(count) |-> 1] ]

\* ------------------------------------------------------------------------
\* Contact resolution (constraints/contact.rs)
\* ------------------------------------------------------------------------
Min(a, b) == IF a < b THEN a ELSE b

Max(a, b) == IF a > b THEN a ELSE b

\* one contact of solve_contacts; cs is [corrections, correction_counts],
\* friction is in thousandths, dt in milliseconds
solve_contact(c, predicted, previous, inv_mass, cs, friction, dt) ==
    LET i     == c.i
        j     == c.j
        w_i   == inv_mass[i]
        w_j   == inv_mass[j]
        w_sum == w_i + w_j
        \* normal * penetration / w_sum, back in length units
        correction == VDivT(VScale(c.normal, c.penetration), One * w_sum)
        cn == [cs.corrections EXCEPT
                  ![i] = VSub(@, VScale(correction, w_i)),
                  ![j] = VAdd(@, VScale(correction, w_j))]
        vel_i   == VDivT(VScale(VSub(predicted[i], previous[i]), MsPerSec), dt)
        vel_j   == VDivT(VScale(VSub(predicted[j], previous[j]), MsPerSec), dt)
        rel_vel == VSub(vel_i, vel_j)
        vn      == DivT(Dot(rel_vel, c.normal), One)
        vt      == VSub(rel_vel, VDivT(VScale(c.normal, vn), One))
        vt_len  == Length(vt)
        max_friction == DivT(friction * c.penetration, 2 * 1000)
        friction_mag == Min(DivT(vt_len * dt, MsPerSec), max_friction)
        \* tangent * friction_mag * w / w_sum
        fc(w) == VDivT(VScale(vt, friction_mag * w), vt_len * w_sum)
        cf == IF friction > 0 /\ dt >= Tiny /\ vt_len >= Tiny
              THEN [cn EXCEPT ![i] = VSub(@, fc(w_i)),
                              ![j] = VAdd(@, fc(w_j))]
              ELSE cn
    IN  IF w_sum < Tiny
        THEN cs
        ELSE [ corrections       |-> cf,
               correction_counts |->
                   [cs.correction_counts EXCEPT ![i] = @ + 1, ![j] = @ + 1] ]

RECURSIVE solve_contacts_from(_, _, _, _, _, _, _, _)
solve_contacts_from(contacts, k, predicted, previous, inv_mass, cs, friction, dt) ==
    IF k > Len(contacts) THEN cs
    ELSE solve_contacts_from(contacts, k + 1, predicted, previous, inv_mass,
             solve_contact(contacts[k], predicted, previous, inv_mass, cs,
                           friction, dt),
             friction, dt)

solve_contacts(contacts, predicted, previous, inv_mass, cs, friction, dt) ==
    solve_contacts_from(contacts, 1, predicted, previous, inv_mass, cs,
                        friction, dt)

\* ------------------------------------------------------------------------
\* Solver (solver.rs)
\* ------------------------------------------------------------------------
\* number of particles of the modelled solver (Solver::new(particle_count))
SolverCount == 2

\* (particle_count as f32).sqrt().ceil()
tex_size(n) == IF ISqrt(n) * ISqrt(n) = n THEN ISqrt(n) ELSE ISqrt(n) + 1

\* math::hash12(ux, uy) in thousandths, tabulated from the code's formula for
\* the texture coordinates (i % tex_size, i / tex_size) of a 1x1 or 2x2 texture
hash12(i, ts) ==
    LET u == <<i % ts, i \div ts>>
    IN  IF ts = 1 \/ u = <<0, 0>> THEN 0
        ELSE IF u = <<1, 0>> THEN 188
        ELSE IF u = <<0, 1>> THEN 993
        ELSE 372

\* math::smoothstep(edge0, edge1, x), all in thousandths
smoothstep(edge0, edge1, x) ==
    LET t == Max(0, Min(1000, DivT((x - edge0) * 1000, edge1 - edge0)))
    IN  IF Abs(edge1 - edge0) < Tiny
        THEN (IF x < edge0 THEN 0 ELSE 1000)
        ELSE DivT(DivT(t * t, 1000) * (3000 - 2 * t), 1000)

\* cos and sin (in thousandths) of the spiral angle t * TAU * 20, t = i / n,
\* for the counts whose angles are multiples of a quarter or a third of a turn
spiral_cos_sin(i, n) ==
    LET k == (20 * i) % n
    IN  IF k = 0 THEN <<1000, 0>>
        ELSE IF 2 * k = n THEN <<-1000, 0>>
        ELSE IF 4 * k = n THEN <<0, 1000>>
        ELSE IF 4 * k = 3 * n THEN <<0, -1000>>
        ELSE IF 3 * k = n THEN <<-500, 866>>
        ELSE <<-500, -866>>

\* the spiral ring layout of Solver::new and reinitialize
spiral_position(i, n) ==
    LET cs == spiral_cos_sin(i, n)
        r  == DivT(LenScale, 2) + DivT(3 * LenScale * i, 2 * n)
    IN  << DivT(cs[1] * r, 1000),
           DivT(2 * LenScale * i, n) - LenScale,
           DivT(cs[2] * r, 1000) >>

PhysicsConfig_default ==
    [ substeps           |-> 4,
      solver_iterations  |-> 3,
      boundary_radius    |-> 180,
      collisions_enabled |-> FALSE,
      friction           |-> 300 ]

Solver_new_particles(particle_count) ==
    LET p0 == ParticleSet_new(particle_count)
        ts == tex_size(particle_count)
    IN  [p0 EXCEPT
            !.position = [i \in Idx(particle_count) |->
                             spiral_position(i, particle_count)],
            !.radius   = [i \in Idx(particle_count) |->
                             DefaultRadius + DivT(hash12(i, ts) * DefaultRadius, 1000)],
            !.hash     = [i \in Idx(particle_count) |-> hash12(i, ts)]]

\* the table size of the solver's grid: SpatialHashGrid::new(0.2, 131072, n).
\* The model keeps the cell size and takes a table of SolverTableBits bits.
SolverCellSize == 8

SolverTableBits == 3

\* shapes::dispatcher::target_for and the morph blend are outside the core:
\* a stand-in that depends on the particle and on the time input
target_for(i, time) == <<8 * (i + 1) + 4 * time, 0, 0>>

compute_shape_targets(p, time) ==
    [p EXCEPT
        !.target_pos    = [i \in Idx(p.count) |-> target_for(i, time)],
        !.target_weight = [i \in Idx(p.count) |-> smoothstep(30, 900, p.hash[i])]]

\* the velocities apply_forces may leave a particle with
Vels == {<<-250, 0, 0>>, <<250, 0, 0>>}

\* v * dt, a displacement
Displace(v, dt) == VDivT(VScale(v, dt), MsPerSec)

predict_positions(p, sub_dt) ==
    [p EXCEPT !.predicted = [i \in Idx(p.count) |->
                                VAdd(p.position[i], Displace(p.velocity[i], sub_dt))]]

reset_corrections(p) ==
    [p EXCEPT !.corrections       = [i \in Idx(p.count) |-> ZERO],
              !.correction_counts = [i \in Idx(p.count) |-> 0]]

\* solve_boundary_constraint, particle i
RECURSIVE solve_boundary_from(_, _, _)
solve_boundary_from(p, boundary, i) ==
    IF i >= p.count THEN p
    ELSE LET pos  == p.predicted[i]
             dist == Length(pos)
             correction == VDivT(VScale(pos, boundary - dist), dist)
         IN  IF dist > boundary
             THEN solve_boundary_from(
                      [p EXCEPT !.corrections[i] = VAdd(@, correction),
                                !.correction_counts[i] = @ + 1],
                      boundary, i + 1)
             ELSE solve_boundary_from(p, boundary, i + 1)

solve_boundary_constraint(p, boundary) == solve_boundary_from(p, boundary, 0)

\* the accumulated corrections applied without the division by the count
apply_corrections_sum(p) ==
    [p EXCEPT !.predicted = [i \in Idx(p.count) |->
        IF p.correction_counts[i] > 0
        THEN VAdd(p.predicted[i], p.corrections[i])
        ELSE p.predicted[i]]]

apply_corrections(p) ==
    [p EXCEPT !.predicted = [i \in Idx(p.count) |->
        IF p.correction_counts[i] > 0
        THEN VAdd(p.predicted[i], VDivT(p.corrections[i], p.correction_counts[i]))
        ELSE p.predicted[i]]]

commit_substep(p, sub_dt) ==
    [p EXCEPT
        !.velocity = [i \in Idx(p.count) |->
            VDivT(VScale(VSub(p.predicted[i], p.position[i]), MsPerSec), sub_dt)],
        !.position = [i \in Idx(p.count) |-> p.predicted[i]]]

euler_integrate(p, sim_dt) ==
    [p EXCEPT !.position = [i \in Idx(p.count) |->
                               VAdd(p.position[i], Displace(p.velocity[i], sim_dt))]]

\* ------------------------------------------------------------------------
\* Distance constraints (constraints/distance.rs)
\* ------------------------------------------------------------------------
\* compliance is carried in units of 1e-9, so that compliance / dt^2 in
\* thousandths is compliance / (dt in ms)^2
DistanceConstraint_new(i, j, rest_length, compliance) ==
    [ i |-> i, j |-> j, rest_length |-> rest_length,
      compliance |-> compliance, lambda |-> 0 ]

\* one constraint of solve_distance_constraints; st = [constraints, particles]
solve_distance_constraint(st, k, dt) ==
    LET c       == st.constraints[k]
        p       == st.particles
        w_i     == p.inv_mass[c.i]
        w_j     == p.inv_mass[c.j]
        w_sum   == w_i + w_j
        diff    == VSub(p.predicted[c.i], p.predicted[c.j])
        dist    == Length(diff)
        c_val   == dist - c.rest_length
        alpha_tilde  == DivT(c.compliance, dt * dt)
        delta_lambda == DivT(-(c_val * 1000 + alpha_tilde * c.lambda),
                             w_sum * 1000 + alpha_tilde)
        correction   == VDivT(VScale(diff, delta_lambda), dist)
    IN  IF w_sum < Tiny THEN st
        ELSE IF dist < Tiny THEN st
        ELSE [ constraints |->
                   [st.constraints EXCEPT ![k].lambda = @ + delta_lambda],
               particles |->
                   [p EXCEPT
                      !.corrections = [m \in Idx(p.count) |->
                          IF m = c.i /\ m = c.j
                              THEN VSub(VAdd(@[m], VScale(correction, w_i)),
                                        VScale(correction, w_j))
                          ELSE IF m = c.i THEN VAdd(@[m], VScale(correction, w_i))
                          ELSE IF m = c.j THEN VSub(@[m], VScale(correction, w_j))
                          ELSE @[m]],
                      !.correction_counts = [m \in Idx(p.count) |->
                          @[m] + (IF m = c.i THEN 1 ELSE 0)
                               + (IF m = c.j THEN 1 ELSE 0)]] ]

RECURSIVE solve_distance_from(_, _, _)
solve_distance_from(st, k, dt) ==
    IF k > Len(st.constraints) THEN st
    ELSE solve_distance_from(solve_distance_constraint(st, k, dt), k + 1, dt)

solve_distance_constraints(constraints, p, dt) ==
    solve_distance_from([constraints |-> constraints, particles |-> p], 1, dt)

reset_lambdas(constraints) ==
    [k \in 1 .. Len(constraints) |-> [constraints[k] EXCEPT !.lambda = 0]]

\* ------------------------------------------------------------------------
\* SPH kernels (fluids/mod.rs), PBF density (constraints/density.rs),
\* XSPH viscosity (fluids/viscosity.rs)
\* ------------------------------------------------------------------------
\* The kernels are carried for the smoothing radius h = 0.1 of the default
\* configuration, FluidH length units.  Densities are in kg/m^3, gradients
\* per world unit as in the code, lambda and s_corr in millionths.
FluidH == 4

\* 315 / (64 PI h^9) * h^6 at h = 0.1: poly6 at r = 0
Poly6Peak == 1567

\* 45 / (PI h^6) * h^2 at h = 0.1: the spiky coefficient at r_len = 0
SpikyPeak == 143239

\* (1 - TENSILE_DQ_FACTOR^2)^3 in millionths: poly6(0.3 h, h) / poly6(0, h)
TensileDqCube == 753571

EPSILON == 600

Cube(x) == x * x * x

RECURSIVE SeqSumFrom(_, _)
SeqSumFrom(s, k) == IF k > Len(s) THEN 0 ELSE s[k] + SeqSumFrom(s, k + 1)

\* a += term, over the callbacks in order
SeqSum(s) == SeqSumFrom(s, 1)

RECURSIVE VSeqSumFrom(_, _)
VSeqSumFrom(s, k) == IF k > Len(s) THEN ZERO ELSE VAdd(s[k], VSeqSumFrom(s, k + 1))

VSeqSum(s) == VSeqSumFrom(s, 1)

is_fluid_phase(phase) == phase \in {"Fluid", "Gas"}

poly6_kernel(r, h) ==
    IF r >= h THEN 0
    ELSE DivT(Poly6Peak * Cube(h * h - r * r), Cube(h * h))

spiky_gradient(r, r_len, h) ==
    IF r_len >= h \/ r_len < Tiny THEN ZERO
    ELSE VDivT(VScale(r, -DivT(SpikyPeak * (h - r_len) * (h - r_len), h * h)),
               r_len)

\* phase 1, particle i: the density summed over the reported neighbours
density_sum(p, g, i, h) ==
    LET pos_i == p.predicted[i]
        js    == query_neighbors(g, pos_i)
    IN  SeqSum([k \in 1 .. Len(js) |->
            LET r_len == Length(VSub(pos_i, p.predicted[js[k]]))
            IN  IF r_len < h THEN poly6_kernel(r_len, h) ELSE 0])

density_phase1(p, g, h) ==
    [p EXCEPT !.density = [i \in Idx(p.count) |->
        IF is_fluid_phase(p.phase[i]) THEN density_sum(p, g, i, h) ELSE @[i]]]

\* phase 2, particle i: lambda_i = -C_i / (sum |grad C|^2 + EPSILON)
density_lambda(p, g, i, rest_density, h) ==
    LET pos_i == p.predicted[i]
        js    == query_neighbors(g, pos_i)
        c_i   == DivT(p.density[i] * 1000, rest_density) - 1000
        grads == [k \in 1 .. Len(js) |->
                    LET r     == VSub(pos_i, p.predicted[js[k]])
                        r_len == Length(r)
                    IN  IF js[k] = i THEN ZERO
                        ELSE IF r_len < h
                             THEN VDivT(spiky_gradient(r, r_len, h), rest_density)
                             ELSE ZERO]
        grad_self   == VSeqSum(grads)
        grad_sum_sq == SeqSum([k \in 1 .. Len(js) |-> Dot(grads[k], grads[k])])
                           + Dot(grad_self, grad_self)
    IN  DivT(-(c_i * 1000), grad_sum_sq + EPSILON)

density_phase2(p, g, rest_density, h) ==
    [p EXCEPT !.lambda = [i \in Idx(p.count) |->
        IF is_fluid_phase(p.phase[i])
        THEN density_lambda(p, g, i, rest_density, h) ELSE @[i]]]

\* the tensile term s_corr = -TENSILE_K * (poly6(r) / poly6(dq))^TENSILE_N
tensile_s_corr(r_len, h, tensile_correction) ==
    LET poly6_dq == DivT(Poly6Peak * TensileDqCube, 1000000)
        ratio    == DivT(poly6_kernel(r_len, h) * 1000, poly6_dq)
        ratio2   == DivT(ratio * ratio, 1000)
    IN  IF tensile_correction THEN -DivT(ratio2 * ratio2, 1000) ELSE 0

\* phase 3, particle i: delta_p in millionths of a world unit
density_delta_p(p, g, i, rest_density, h, tensile_correction) ==
    LET pos_i    == p.predicted[i]
        js       == query_neighbors(g, pos_i)
        lambda_i == p.lambda[i]
    IN  VSeqSum([k \in 1 .. Len(js) |->
            LET j        == js[k]
                r        == VSub(pos_i, p.predicted[j])
                r_len    == Length(r)
                lambda_j == IF is_fluid_phase(p.phase[j]) THEN p.lambda[j] ELSE 0
                s_corr   == tensile_s_corr(r_len, h, tensile_correction)
            IN  IF j = i THEN ZERO
                ELSE IF r_len >= h THEN ZERO
                ELSE VScale(VDivT(spiky_gradient(r, r_len, h), rest_density),
                            lambda_i + lambda_j + s_corr)])

\* phase 3 without the test of the phase: every particle is counted
density_phase3_every_phase(p, g, rest_density, h, tensile_correction) ==
    [p EXCEPT
        !.corrections = [i \in Idx(p.count) |->
            VAdd(@[i],
                 VDivT(VScale(density_delta_p(p, g, i, rest_density, h,
                                              tensile_correction),
                              LenScale),
                       1000000))],
        !.correction_counts = [i \in Idx(p.count) |-> @[i] + 1]]

density_phase3(p, g, rest_density, h, tensile_correction) ==
    [p EXCEPT
        !.corrections = [i \in Idx(p.count) |->
            IF is_fluid_phase(p.phase[i])
            THEN VAdd(@[i],
                      VDivT(VScale(density_delta_p(p, g, i, rest_density, h,
                                                   tensile_correction),
                                   LenScale),
                            1000000))
            ELSE @[i]],
        !.correction_counts = [i \in Idx(p.count) |->
            IF is_fluid_phase(p.phase[i]) THEN @[i] + 1 ELSE @[i]]]

solve_density_constraints(p, g, rest_density, h, tensile_correction) ==
    density_phase3(
        density_phase2(density_phase1(p, g, h), g, rest_density, h),
        g, rest_density, h, tensile_correction)

\* the velocity correction of particle i; viscosity in thousandths
xsph_correction(p, g, i, viscosity, h) ==
    LET pos_i == p.predicted[i]
        vel_i == p.velocity[i]
        js    == query_neighbors(g, pos_i)
        correction ==
            VSeqSum([k \in 1 .. Len(js) |->
                LET j     == js[k]
                    r_len == Length(VSub(pos_i, p.predicted[j]))
                    w     == poly6_kernel(r_len, h)
                    rho_j == Max(p.density[j], Tiny)
                IN  IF j = i THEN ZERO
                    ELSE IF r_len < h
                         THEN VDivT(VScale(VSub(p.velocity[j], vel_i), w), rho_j)
                         ELSE ZERO])
    IN  IF is_fluid_phase(p.phase[i])
        THEN VDivT(VScale(correction, viscosity), 1000)
        ELSE ZERO

apply_xsph_viscosity(p, g, viscosity, h) ==
    [p EXCEPT !.velocity = [i \in Idx(p.count) |->
        IF xsph_correction(p, g, i, viscosity, h) # ZERO
        THEN VAdd(@[i], xsph_correction(p, g, i, viscosity, h))
        ELSE @[i]]]

\* ------------------------------------------------------------------------
\* State
\* ------------------------------------------------------------------------
VARIABLES
    grid,             \* the SpatialHashGrid (the solver's, or the one under test)
    contacts,         \* Vec<ContactConstraint> of the last detect_contacts
    gpositions,       \* grid harness: the positions of the latest build
    gcount,           \* grid harness: the count of the latest build
    gradii,           \* grid harness: the radii of the latest detect_contacts
    gdetected,        \* grid harness: detect_contacts ran after the latest build
    particles,        \* Solver.particles
    config,           \* Solver.config
    speed_multiplier, \* Solver.shape_params.speed_multiplier
    pc,               \* the position of Solver::step
    sim_dt,           \* step local
    sub_dt,           \* step local
    substep,          \* step local: the substep loop counter
    iter,             \* step local: the iteration loop counter
    steps,            \* number of Solver::step calls so far
    trace,            \* the phases the current or latest step went through
    snap,             \* the solver state at the latest call of step
    iter_start,       \* predicted at the start of the current iteration
    configured,       \* the host wrote the public fields
    distance_constraints, \* the caller's Vec<DistanceConstraint>
    host_calls,       \* number of constraint calls of the caller so far
    fluidA,           \* fluid harness: run A, [particles, grid]
    fluidB,           \* fluid harness: run B, [particles, grid]
    fstage,           \* fluid harness: what ran last
    bending_constraints, \* Solver.bending_constraints
    shape_match_groups,  \* Solver.shape_match_groups
    last_call,        \* the latest call on the solver's public interface
    before_call,      \* the solver state at that call
    aq,               \* an AdaptiveQuality controller
    aq_before,        \* the controller at the latest call of update
    aq_input,         \* physics_ms of the latest call of update
    aq_since,         \* updates since substeps or iterations last changed
    aq_stage,         \* quality harness: what ran last
    nbody,            \* the arguments of the latest apply_nbody_gravity
    octree,           \* the octree that call built
    accels,           \* the accelerations that call computed
    nstage,           \* gravity harness: what ran last
    em,               \* the arguments of the latest apply_electromagnetic_forces
    em_out,           \* the velocities that call left
    estage            \* electromagnetic harness: what ran last

gridVars == <<gpositions, gcount, gradii, gdetected>>

solverVars == <<particles, config, speed_multiplier, pc, sim_dt, sub_dt, substep,
                iter, steps, trace, snap, iter_start, configured>>

fluidVars == <<fluidA, fluidB, fstage>>

hostVars == <<distance_constraints, host_calls>>

topologyVars == <<bending_constraints, shape_match_groups, last_call, before_call>>

qualityVars == <<aq, aq_before, aq_input, aq_since, aq_stage>>

gravityVars == <<nbody, octree, accels, nstage>>

emVars == <<em, em_out, estage>>

\* the variables of the modules a solver, grid or fluid action never touches
moduleVars == <<topologyVars, qualityVars, gravityVars, emVars>>

vars == <<grid, contacts, gridVars, solverVars, fluidVars, hostVars, moduleVars>>

\* ------------------------------------------------------------------------
\* Solver::step as a process
\* ------------------------------------------------------------------------
\* inputs of the model
DtValues == {0, 16}

SetupSubsteps == {1, 2}

SetupIterations == {1, 2}

SetupBoundary == {3}

SetupSpeeds == {0, 1}

SetupPositions == {<<2, 0, 0>>}

SetupInvMass == {0, 1}

Snapshot == [ particles |-> particles, grid |-> grid, contacts |-> contacts ]

ParkedGridVars ==
    /\ gpositions = [i \in Idx(MaxParticles) |-> ZERO]
    /\ gcount = 0
    /\ gradii = [i \in Idx(MaxParticles) |-> 0]
    /\ gdetected = FALSE

ParkedFluidVars ==
    /\ fluidA = <<>>
    /\ fluidB = <<>>
    /\ fstage = "none"

ParkedSolverVars ==
    /\ particles = ParticleSet_new(0)
    /\ config = PhysicsConfig_default
    /\ speed_multiplier = 1
    /\ pc = "off"
    /\ sim_dt = 0
    /\ sub_dt = 0
    /\ substep = 0
    /\ iter = 0
    /\ steps = 0
    /\ trace = <<>>
    /\ snap = <<>>
    /\ iter_start = <<>>
    /\ configured = FALSE

ParkedHostVars ==
    /\ distance_constraints = <<>>
    /\ host_calls = 0

ParkedTopologyVars ==
    /\ bending_constraints = <<>>
    /\ shape_match_groups = <<>>
    /\ last_call = [op |-> "none"]
    /\ before_call = <<>>

ParkedQualityVars ==
    /\ aq = <<>>
    /\ aq_before = <<>>
    /\ aq_input = 0
    /\ aq_since = 0
    /\ aq_stage = "none"

ParkedGravityVars ==
    /\ nbody = <<>>
    /\ octree = <<>>
    /\ accels = <<>>
    /\ nstage = "none"

ParkedEmVars ==
    /\ em = <<>>
    /\ em_out = <<>>
    /\ estage = "none"

ParkedModuleVars ==
    /\ ParkedTopologyVars
    /\ ParkedQualityVars
    /\ ParkedGravityVars
    /\ ParkedEmVars

InitSolver ==
    /\ grid = SpatialHashGrid_new(SolverCellSize, Pow2(SolverTableBits), SolverCount)
    /\ contacts = <<>>
    /\ particles = Solver_new_particles(SolverCount)
    /\ config = PhysicsConfig_default
    /\ speed_multiplier = 1
    /\ pc = "idle"
    /\ sim_dt = 0
    /\ sub_dt = 0
    /\ substep = 0
    /\ iter = 0
    /\ steps = 0
    /\ trace = <<>>
    /\ snap = [ particles |-> Solver_new_particles(SolverCount),
                grid      |-> SpatialHashGrid_new(SolverCellSize,
                                  Pow2(SolverTableBits), SolverCount),
                contacts  |-> <<>> ]
    /\ iter_start = [i \in Idx(SolverCount) |-> ZERO]
    /\ configured = FALSE
    /\ ParkedGridVars
    /\ ParkedFluidVars
    /\ ParkedHostVars
    /\ ParkedModuleVars

\* The host writes public fields before the first step, as the tests do:
\* config, shape_params.speed_multiplier, particles.position / inv_mass.
HostSetup ==
    /\ pc = "idle" /\ steps = 0 /\ ~configured
    /\ \E s \in SetupSubsteps, k \in SetupIterations, c \in BOOLEAN,
          b \in SetupBoundary, sp \in SetupSpeeds,
          p1 \in SetupPositions, w0 \in SetupInvMass :
        /\ config' = [config EXCEPT !.substeps = s, !.solver_iterations = k,
                                    !.collisions_enabled = c,
                                    !.boundary_radius = b]
        /\ speed_multiplier' = sp
        /\ particles' = [particles EXCEPT
                            !.position = [i \in Idx(SolverCount) |->
                                             IF i = 0 THEN ZERO ELSE p1],
                            !.inv_mass[0] = w0]
    /\ configured' = TRUE
    /\ UNCHANGED <<moduleVars, grid, contacts, pc, sim_dt, sub_dt, substep, iter, steps,
                   trace, snap, iter_start, gridVars, fluidVars, hostVars>>

\* the early return of step: |sim_dt| < 1e-9
step_returns(dt) == Abs(dt) < Tiny

\* a step that computes the shape targets before it tests sim_dt
step_entry_targets(p, dt, time) == compute_shape_targets(p, time)

\* what step does to the particles before it takes a path
step_entry(p, dt, time) ==
    IF step_returns(dt) THEN p ELSE compute_shape_targets(p, time)

\* a step that runs the substeps whether collisions are enabled or not
step_path_substeps(dt, cfg) ==
    IF step_returns(dt) THEN "idle"
    ELSE IF cfg.substeps > 0 THEN "forces" ELSE "idle"

\* the path step takes after the targets
step_path(dt, cfg) ==
    IF step_returns(dt) THEN "idle"
    ELSE IF cfg.collisions_enabled
         THEN (IF cfg.substeps > 0 THEN "forces" ELSE "idle")
         ELSE "euler_forces"

StepCall ==
    /\ pc = "idle" /\ steps < MaxSteps
    /\ \E dt \in DtValues :
        /\ sim_dt' = dt * speed_multiplier
        \* the host passes the accumulated time: the frame number
        /\ particles' = step_entry(particles, dt * speed_multiplier, steps + 1)
        /\ pc' = step_path(dt * speed_multiplier, config)
        /\ sub_dt' = IF step_returns(dt * speed_multiplier) THEN sub_dt
                     ELSE DivT(dt * speed_multiplier, Max(config.substeps, 1))
    /\ steps' = steps + 1
    /\ substep' = 0
    /\ trace' = <<>>
    /\ snap' = Snapshot
    /\ UNCHANGED <<moduleVars, grid, contacts, config, speed_multiplier, iter, iter_start,
                   configured, gridVars, fluidVars, hostVars>>

\* apply_forces: the flow, shape, pointer and audio forces are outside the
\* core; the model takes any velocity field within the speed cap
ApplyForces ==
    /\ pc \in {"forces", "euler_forces"}
    /\ \E v \in [Idx(SolverCount) -> Vels] :
        particles' = [particles EXCEPT !.velocity = v]
    /\ pc' = IF pc = "forces" THEN "predict" ELSE "integrate"
    /\ trace' = Append(trace, "forces")
    /\ UNCHANGED <<moduleVars, grid, contacts, config, speed_multiplier, sim_dt, sub_dt,
                   substep, iter, steps, snap, iter_start, configured,
                   gridVars, fluidVars, hostVars>>

Predict ==
    /\ pc = "predict"
    /\ particles' = predict_positions(particles, sub_dt)
    /\ pc' = "build"
    /\ trace' = Append(trace, "predict")
    /\ UNCHANGED <<moduleVars, grid, contacts, config, speed_multiplier, sim_dt, sub_dt,
                   substep, iter, steps, snap, iter_start, configured,
                   gridVars, fluidVars, hostVars>>

BuildGrid ==
    /\ pc = "build"
    /\ grid' = build(grid, particles.predicted, particles.count)
    /\ pc' = "detect"
    /\ trace' = Append(trace, "build")
    /\ UNCHANGED <<moduleVars, contacts, particles, config, speed_multiplier, sim_dt, sub_dt,
                   substep, iter, steps, snap, iter_start, configured,
                   gridVars, fluidVars, hostVars>>

\* where step goes after detect_contacts
after_detect(cfg) == IF cfg.solver_iterations > 0 THEN "reset" ELSE "commit"

DetectContacts ==
    /\ pc = "detect"
    /\ contacts' = detect_contacts(particles.predicted, particles.radius,
                                   particles.count, grid)
    /\ iter' = 0
    /\ pc' = after_detect(config)
    /\ trace' = Append(trace, "detect")
    /\ UNCHANGED <<moduleVars, grid, particles, config, speed_multiplier, sim_dt, sub_dt,
                   substep, steps, snap, iter_start, configured,
                   gridVars, fluidVars, hostVars>>

IterReset ==
    /\ pc = "reset"
    /\ particles' = reset_corrections(particles)
    /\ iter_start' = particles.predicted
    /\ pc' = "contacts"
    /\ UNCHANGED <<moduleVars, grid, contacts, config, speed_multiplier, sim_dt, sub_dt,
                   substep, iter, steps, trace, snap, configured,
                   gridVars, fluidVars, hostVars>>

\* the call of solve_contacts in the iteration loop
iter_solve_contacts(p, cs, cfg, dt) ==
    LET r == solve_contacts(cs, p.predicted, p.position, p.inv_mass,
                 [ corrections       |-> p.corrections,
                   correction_counts |-> p.correction_counts ],
                 cfg.friction, dt)
    IN  [p EXCEPT !.corrections = r.corrections,
                  !.correction_counts = r.correction_counts]

IterContacts ==
    /\ pc = "contacts"
    /\ particles' = iter_solve_contacts(particles, contacts, config, sub_dt)
    /\ pc' = "boundary"
    /\ UNCHANGED <<moduleVars, grid, contacts, config, speed_multiplier, sim_dt, sub_dt,
                   substep, iter, steps, trace, snap, iter_start, configured,
                   gridVars, fluidVars, hostVars>>

IterBoundary ==
    /\ pc = "boundary"
    /\ particles' = solve_boundary_constraint(particles, config.boundary_radius)
    /\ pc' = "apply"
    /\ UNCHANGED <<moduleVars, grid, contacts, config, speed_multiplier, sim_dt, sub_dt,
                   substep, iter, steps, trace, snap, iter_start, configured,
                   gridVars, fluidVars, hostVars>>

\* where step goes after the averaged corrections of iteration it
after_apply(it, cfg) == IF it + 1 < cfg.solver_iterations THEN "reset" ELSE "commit"

IterApply ==
    /\ pc = "apply"
    /\ particles' = apply_corrections(particles)
    /\ iter' = iter + 1
    /\ pc' = after_apply(iter, config)
    /\ trace' = Append(trace, "iterate")
    /\ UNCHANGED <<moduleVars, grid, contacts, config, speed_multiplier, sim_dt, sub_dt,
                   substep, steps, snap, iter_start, configured,
                   gridVars, fluidVars, hostVars>>

\* a step that returns after its first substep
after_commit_once(s, cfg) == "idle"

\* where step goes after the commit of substep s
after_commit(s, cfg) == IF s + 1 < cfg.substeps THEN "forces" ELSE "idle"

Commit ==
    /\ pc = "commit"
    /\ particles' = commit_substep(particles, sub_dt)
    /\ substep' = substep + 1
    /\ pc' = after_commit(substep, config)
    /\ trace' = Append(trace, "commit")
    /\ UNCHANGED <<moduleVars, grid, contacts, config, speed_multiplier, sim_dt, sub_dt,
                   iter, steps, snap, iter_start, configured,
                   gridVars, fluidVars, hostVars>>

EulerIntegrate ==
    /\ pc = "integrate"
    /\ particles' = euler_integrate(particles, sim_dt)
    /\ pc' = "idle"
    /\ trace' = Append(trace, "integrate")
    /\ UNCHANGED <<moduleVars, grid, contacts, config, speed_multiplier, sim_dt, sub_dt,
                   substep, iter, steps, snap, iter_start, configured,
                   gridVars, fluidVars, hostVars>>

NextSolver ==
    \/ HostSetup
    \/ StepCall
    \/ ApplyForces
    \/ Predict
    \/ BuildGrid
    \/ DetectContacts
    \/ IterReset
    \/ IterContacts
    \/ IterBoundary
    \/ IterApply
    \/ Commit
    \/ EulerIntegrate

SpecSolver == InitSolver /\ [][NextSolver]_vars

\* ------------------------------------------------------------------------
\* A caller that holds distance constraints on the solver's particles
\* ------------------------------------------------------------------------
SetupRestLength == 1

SetupCompliance == {0, 256000}

\* the dt the caller passes to solve_distance_constraints, in ms
HostDt == 16

\* DistanceConstraint::new(0, 1, rest_length, compliance), pushed to the list
HostCreateConstraint ==
    /\ pc = "idle" /\ steps = 0 /\ distance_constraints = <<>>
    /\ \E a \in SetupCompliance :
          distance_constraints' =
              <<DistanceConstraint_new(0, 1, SetupRestLength, a)>>
    /\ UNCHANGED <<moduleVars, grid, contacts, gridVars, solverVars, fluidVars, host_calls>>

\* solve_distance_constraints(&mut constraints, &mut solver.particles, dt),
\* called between two calls of step
HostSolveDistance ==
    /\ pc = "idle" /\ steps >= 1 /\ steps < MaxSteps
    /\ distance_constraints # <<>>
    /\ host_calls < MaxHostCalls
    /\ LET r == solve_distance_constraints(distance_constraints, particles, HostDt)
       IN  /\ distance_constraints' = r.constraints
           /\ particles' = r.particles
    /\ host_calls' = host_calls + 1
    /\ UNCHANGED <<moduleVars, grid, contacts, gridVars, fluidVars, config, speed_multiplier,
                   pc, sim_dt, sub_dt, substep, iter, steps, trace, snap,
                   iter_start, configured>>

\* reset_lambdas(&mut constraints), called between two calls of step
HostResetLambdas ==
    /\ pc = "idle" /\ steps >= 1 /\ steps < MaxSteps
    /\ distance_constraints # <<>>
    /\ host_calls < MaxHostCalls
    /\ distance_constraints' = reset_lambdas(distance_constraints)
    /\ host_calls' = host_calls + 1
    /\ UNCHANGED <<moduleVars, grid, contacts, gridVars, solverVars, fluidVars>>

NextLambda ==
    \/ NextSolver
    \/ HostCreateConstraint
    \/ HostSolveDistance
    \/ HostResetLambdas

SpecLambda == InitSolver /\ [][NextLambda]_vars

\* ------------------------------------------------------------------------
\* Two fluid scenes, A and B, that differ only in a non-fluid particle
\* ------------------------------------------------------------------------
FluidCount == 3

FluidTableBits == 3

FluidRestDensity == 1000

\* fluid_viscosity 0.01, in thousandths
FluidViscosity == 10

\* where the second fluid particle is put
FluidNeighbourPoints == {<<2, 0, 0>>, <<0, 3, 0>>}

\* where the third particle is put: two points within h of the origin, one
\* point out of reach
FluidOtherPoints == {<<-1, 0, 0>>, <<0, 0, 2>>, <<12, 0, 0>>}

FluidOtherVels == {ZERO, <<-400, 0, 0>>}

FluidScene(pos1, phase2, pos2, vel2, tensile) ==
    [ particles |->
          [ParticleSet_new(FluidCount) EXCEPT
              !.phase     = [i \in Idx(FluidCount) |->
                                IF i < 2 THEN "Fluid" ELSE phase2],
              !.position  = [i \in Idx(FluidCount) |->
                                IF i = 0 THEN ZERO ELSE IF i = 1 THEN pos1 ELSE pos2],
              !.predicted = [i \in Idx(FluidCount) |->
                                IF i = 0 THEN ZERO ELSE IF i = 1 THEN pos1 ELSE pos2],
              !.velocity  = [i \in Idx(FluidCount) |->
                                IF i = 0 THEN <<40, 0, 0>>
                                ELSE IF i = 1 THEN ZERO ELSE vel2]],
      grid |-> SpatialHashGrid_new(FluidH, Pow2(FluidTableBits), FluidCount),
      tensile |-> tensile ]

InitFluid ==
    /\ fluidA = FluidScene(ZERO, "Free", ZERO, ZERO, TRUE)
    /\ fluidB = FluidScene(ZERO, "Free", ZERO, ZERO, TRUE)
    /\ fstage = "init"
    /\ grid = SpatialHashGrid_new(FluidH, Pow2(FluidTableBits), FluidCount)
    /\ contacts = <<>>
    /\ ParkedGridVars
    /\ ParkedSolverVars
    /\ ParkedHostVars
    /\ ParkedModuleVars

\* the caller fills the particle sets, as the fluid tests do; B is A but for
\* the predicted position and the velocity of a particle that is not fluid
FluidSetup ==
    /\ fstage = "init"
    /\ \E pos1 \in FluidNeighbourPoints, phase2 \in {"Free", "Fluid"},
          posA \in FluidOtherPoints, posB \in FluidOtherPoints,
          velA \in FluidOtherVels, velB \in FluidOtherVels,
          tensile \in BOOLEAN :
        /\ is_fluid_phase(phase2) => (posA = posB /\ velA = velB)
        /\ fluidA' = FluidScene(pos1, phase2, posA, velA, tensile)
        /\ fluidB' = FluidScene(pos1, phase2, posB, velB, tensile)
    /\ fstage' = "setup"
    /\ UNCHANGED <<moduleVars, grid, contacts, gridVars, solverVars, hostVars>>

\* grid.build(&particles.predicted, count) in both scenes
FluidBuild ==
    /\ fstage = "setup"
    /\ fluidA' = [fluidA EXCEPT !.grid =
                     build(@, fluidA.particles.predicted, fluidA.particles.count)]
    /\ fluidB' = [fluidB EXCEPT !.grid =
                     build(@, fluidB.particles.predicted, fluidB.particles.count)]
    /\ fstage' = "built"
    /\ UNCHANGED <<moduleVars, grid, contacts, gridVars, solverVars, hostVars>>

FluidDensity ==
    /\ fstage = "built"
    /\ fluidA' = [fluidA EXCEPT !.particles =
                     solve_density_constraints(@, fluidA.grid, FluidRestDensity,
                                               FluidH, fluidA.tensile)]
    /\ fluidB' = [fluidB EXCEPT !.particles =
                     solve_density_constraints(@, fluidB.grid, FluidRestDensity,
                                               FluidH, fluidB.tensile)]
    /\ fstage' = "density"
    /\ UNCHANGED <<moduleVars, grid, contacts, gridVars, solverVars, hostVars>>

FluidViscosityStep ==
    /\ fstage \in {"built", "density"}
    /\ fluidA' = [fluidA EXCEPT !.particles =
                     apply_xsph_viscosity(@, fluidA.grid, FluidViscosity, FluidH)]
    /\ fluidB' = [fluidB EXCEPT !.particles =
                     apply_xsph_viscosity(@, fluidB.grid, FluidViscosity, FluidH)]
    /\ fstage' = "viscosity"
    /\ UNCHANGED <<moduleVars, grid, contacts, gridVars, solverVars, hostVars>>

NextFluid == FluidSetup \/ FluidBuild \/ FluidDensity \/ FluidViscosityStep

SpecFluid == InitFluid /\ [][NextFluid]_vars

FluidIdx == {i \in Idx(FluidCount) : is_fluid_phase(fluidA.particles.phase[i])}

\* C4: two scenes that differ only in the predicted position of a particle
\* that is not fluid give every fluid particle the same density and the same
\* accumulated correction.
CexC4 ==
    (fstage = "density"
        /\ fluidA.particles.velocity = fluidB.particles.velocity) =>
        \A i \in FluidIdx :
            /\ fluidA.particles.density[i] = fluidB.particles.density[i]
            /\ fluidA.particles.corrections[i] = fluidB.particles.corrections[i]
            /\ fluidA.particles.correction_counts[i]
                   = fluidB.particles.correction_counts[i]

\* C5: two scenes that differ only in the velocity of a particle that is not
\* fluid give every fluid particle the same velocity after
\* apply_xsph_viscosity.
CexC5 ==
    (fstage = "viscosity"
        /\ fluidA.particles.predicted = fluidB.particles.predicted
        /\ fluidA.particles.density = fluidB.particles.density) =>
        \A i \in FluidIdx :
            fluidA.particles.velocity[i] = fluidB.particles.velocity[i]

\* ------------------------------------------------------------------------
\* SpatialHashGrid and detect_contacts under test
\* ------------------------------------------------------------------------
\* the cell size of the grid under test
GridCellSize == 8

\* the points particles are placed at: the origin, a point of the diagonal
\* neighbour cell with negative coordinates, a point four cells away
GridPoints == {<<0, 0, 0>>, <<-4, 0, -4>>, <<32, 0, 0>>}

GridRadii == {2, 4}

InitGrid ==
    /\ \E ts \in TableSizes :
          grid = SpatialHashGrid_new(GridCellSize, ts, MaxParticles)
    /\ contacts = <<>>
    /\ ParkedGridVars
    /\ ParkedSolverVars
    /\ ParkedFluidVars
    /\ ParkedHostVars
    /\ ParkedModuleVars

\* build(positions, count): entries of positions beyond count are not read
GridBuild ==
    /\ \E count \in 0 .. MaxParticles :
       \E positions \in [Idx(MaxParticles) -> GridPoints] :
          /\ \A i \in Idx(MaxParticles) : i >= count => positions[i] = ZERO
          /\ grid' = build(grid, positions, count)
          /\ gpositions' = positions
          /\ gcount' = count
    /\ gdetected' = FALSE
    /\ contacts' = <<>>
    /\ UNCHANGED <<moduleVars, gradii, solverVars, fluidVars, hostVars>>

\* detect_contacts on the positions the grid was built from
GridDetect ==
    /\ ~gdetected
    /\ \E radii \in [Idx(MaxParticles) -> GridRadii \cup {0}] :
          /\ \A i \in Idx(MaxParticles) : (i >= gcount) <=> (radii[i] = 0)
          /\ contacts' = detect_contacts(gpositions, radii, gcount, grid)
          /\ gradii' = radii
    /\ gdetected' = TRUE
    /\ UNCHANGED <<moduleVars, grid, gpositions, gcount, solverVars, fluidVars, hostVars>>

NextGrid == GridBuild \/ GridDetect

SpecGrid == InitGrid /\ [][NextGrid]_vars

\* two cells within one cell of each other on every axis
CellsAdjacent(a, b) == \A k \in 1 .. 3 : Abs(a[k] - b[k]) <= 1

\* C1: after the latest build, a query at any position reports every
\* particle whose cell is within one cell of the position's cell on every
\* axis; in particular a query at a particle's position reports the particle.
ThmC1 ==
    /\ \A pos \in GridPoints : \A j \in Idx(gcount) :
          CellsAdjacent(cell_coords(grid, pos), cell_coords(grid, gpositions[j]))
              => j \in Range(query_neighbors(grid, pos))
    /\ \A i \in Idx(gcount) : i \in Range(query_neighbors(grid, gpositions[i]))

\* two particles lie in different neighbouring cells and in different
\* buckets, and the query at each one's position reports both
WitC1 ==
    /\ gcount = 2
    /\ cell_coords(grid, gpositions[0]) # cell_coords(grid, gpositions[1])
    /\ CellsAdjacent(cell_coords(grid, gpositions[0]), cell_coords(grid, gpositions[1]))
    /\ grid.particle_hashes[0] # grid.particle_hashes[1]
    /\ {0, 1} \subseteq Range(query_neighbors(grid, gpositions[0]))
    /\ {0, 1} \subseteq Range(query_neighbors(grid, gpositions[1]))

\* the contacts of the list that pair i with j
ContactsOf(i, j) == {k \in 1 .. Len(contacts) : contacts[k].i = i /\ contacts[k].j = j}

Overlap(i, j) ==
    LET dist == Length(VSub(gpositions[j], gpositions[i]))
    IN  dist >= Tiny /\ dist < gradii[i] + gradii[j]

\* C3: detect_contacts returns exactly one contact for every overlapping
\* pair in neighbouring cells, recorded with i < j and the penetration
\* r_i + r_j - distance > 0, and no pair twice.
CexC3 ==
    gdetected =>
        /\ \A i, j \in Idx(gcount) :
              (i < j /\ Overlap(i, j)
                 /\ CellsAdjacent(cell_coords(grid, gpositions[i]),
                                  cell_coords(grid, gpositions[j])))
                  => Cardinality(ContactsOf(i, j)) = 1
        /\ \A k \in 1 .. Len(contacts) :
              /\ contacts[k].i < contacts[k].j
              /\ contacts[k].penetration > 0
              /\ contacts[k].penetration =
                     gradii[contacts[k].i] + gradii[contacts[k].j]
                         - Length(VSub(gpositions[contacts[k].j],
                                       gpositions[contacts[k].i]))
        /\ \A k, m \in 1 .. Len(contacts) :
              (contacts[k].i = contacts[m].i /\ contacts[k].j = contacts[m].j)
                  => k = m

\* ------------------------------------------------------------------------
\* Properties of Solver::step
\* ------------------------------------------------------------------------
RECURSIVE Repeat(_, _)
Repeat(s, n) == IF n <= 0 THEN <<>> ELSE s \o Repeat(s, n - 1)

IsPrefix(a, b) == Len(a) <= Len(b) /\ SubSeq(b, 1, Len(a)) = a

\* the phases of one substep with K solver iterations, in order
SubstepPhases(K) ==
    <<"forces", "predict", "build", "detect">> \o Repeat(<<"iterate">>, K)
        \o <<"commit">>

\* the phases of one XPBD step with S substeps of K iterations
StepPhases(S, K) == Repeat(SubstepPhases(K), S)

CountOf(s, e) == Cardinality({k \in 1 .. Len(s) : s[k] = e})

\* the latest call of step ran (or is running) the XPBD path
InXpbdStep == steps > 0 /\ ~step_returns(sim_dt) /\ config.collisions_enabled

\* the latest call of step ran (or is running) the single Euler pass
InEulerStep == steps > 0 /\ ~step_returns(sim_dt) /\ ~config.collisions_enabled

\* the latest call of step returned early
InNullStep == steps > 0 /\ step_returns(sim_dt)

\* C2: a particle with inv_mass = 0 never holds a non-zero accumulated
\* correction (so constraint solving never moves it).
CexC2 ==
    \A i \in Idx(particles.count) :
        particles.inv_mass[i] = 0 => particles.corrections[i] = ZERO

\* C6: every iteration starts from zeroed buffers, the buffers applied at
\* the end of an iteration hold exactly what this iteration accumulated on
\* the predicted positions it started from, and the end of the iteration
\* adds corrections / count to predicted once where count > 0 and leaves
\* predicted alone elsewhere.
ThmC6 ==
    /\ pc = "contacts" =>
          \A i \in Idx(particles.count) :
              /\ particles.corrections[i] = ZERO
              /\ particles.correction_counts[i] = 0
    /\ pc = "apply" =>
          /\ particles.predicted = iter_start
          /\ LET fresh == solve_boundary_constraint(
                              iter_solve_contacts(reset_corrections(particles),
                                                  contacts, config, sub_dt),
                              config.boundary_radius)
             IN  /\ particles.corrections = fresh.corrections
                 /\ particles.correction_counts = fresh.correction_counts
    /\ (pc \in {"reset", "commit"} /\ iter > 0) =>
          \A i \in Idx(particles.count) :
              particles.predicted[i] =
                  IF particles.correction_counts[i] > 0
                  THEN VAdd(iter_start[i],
                            VDivT(particles.corrections[i],
                                  particles.correction_counts[i]))
                  ELSE iter_start[i]

\* an iteration has just ended in which one particle averaged two corrections
\* and moved, while the other buffers were applied too
WitC6 ==
    /\ pc \in {"reset", "commit"} /\ iter > 0
    /\ \E i \in Idx(particles.count) :
        /\ particles.correction_counts[i] >= 2
        /\ particles.corrections[i] # ZERO
        /\ particles.predicted[i] # iter_start[i]

\* C7: an XPBD step goes through forces, predict, build, detect, K
\* iterations and commit, substep after substep; the grid and the contact
\* list are rebuilt once per substep.
ThmC7 ==
    InXpbdStep =>
        /\ IsPrefix(trace, StepPhases(config.substeps, config.solver_iterations))
        /\ pc = "idle" =>
              /\ trace = StepPhases(config.substeps, config.solver_iterations)
              /\ CountOf(trace, "build") = config.substeps
              /\ CountOf(trace, "detect") = config.substeps
        /\ CountOf(trace, "commit") = substep

\* a step of two substeps with two iterations each has returned
WitC7 ==
    /\ InXpbdStep /\ pc = "idle"
    /\ config.substeps = 2 /\ config.solver_iterations = 2
    /\ Len(trace) = 14

\* C8: when a step reaches its first solver iteration, every distance
\* constraint's lambda is 0: no value accumulated before the step is left.
CexC8 ==
    (pc = "reset" /\ substep = 0 /\ iter = 0) =>
        \A k \in 1 .. Len(distance_constraints) :
            distance_constraints[k].lambda = 0

\* C9: without collisions a non-zero step applies the forces once and
\* integrates the positions once with the whole sim_dt, whatever substeps and
\* solver_iterations are, and leaves predicted, the correction buffers, the
\* grid and the contact list alone; with collisions it runs the substeps.
ThmC9 ==
    /\ (InEulerStep /\ pc = "idle") =>
          /\ trace = <<"forces", "integrate">>
          /\ \A i \in Idx(particles.count) :
                particles.position[i] =
                    VAdd(snap.particles.position[i],
                         Displace(particles.velocity[i], sim_dt))
          /\ particles.predicted = snap.particles.predicted
          /\ particles.corrections = snap.particles.corrections
          /\ particles.correction_counts = snap.particles.correction_counts
          /\ grid = snap.grid
          /\ contacts = snap.contacts
    /\ (InXpbdStep /\ pc = "idle" /\ config.substeps > 0) =>
          /\ CountOf(trace, "integrate") = 0
          /\ CountOf(trace, "commit") = config.substeps

\* an Euler step has returned although the configuration asks for two
\* substeps, and the particles moved
WitC9 ==
    /\ InEulerStep /\ pc = "idle"
    /\ config.substeps = 2
    /\ particles.position # snap.particles.position

\* C10: a step whose |dt * speed_multiplier| is below 1e-9 changes nothing.
ThmC10 ==
    InNullStep =>
        /\ pc = "idle"
        /\ particles = snap.particles
        /\ grid = snap.grid
        /\ contacts = snap.contacts

\* a null step has returned after an earlier step had moved the particles
\* and built the grid
WitC10 ==
    /\ InNullStep /\ steps = 2
    /\ config.collisions_enabled
    /\ speed_multiplier = 1
    /\ particles.target_pos[0] # ZERO

\* ------------------------------------------------------------------------
\* Cloth and rigid-body topology: Solver::create_cloth, create_rigid_body,
\* clear_constraints (their bodies are not part of the source snapshot; they
\* follow the interface section of the specification and the tests that
\* call them), Solver::reinitialize and the host setters (source)
\* ------------------------------------------------------------------------
\* number of particles of the solver these calls act on (Solver::new(4))
TopologyCount == 4

\* the Solver fields the calls read and write
SolverState ==
    [ particles            |-> particles,
      config               |-> config,
      distance_constraints |-> distance_constraints,
      bending_constraints  |-> bending_constraints,
      shape_match_groups   |-> shape_match_groups ]

Solver_new(particle_count) ==
    [ particles            |-> Solver_new_particles(particle_count),
      config               |-> PhysicsConfig_default,
      distance_constraints |-> <<>>,
      bending_constraints  |-> <<>>,
      shape_match_groups   |-> <<>> ]

BendingConstraint_new(i, j, k, l, rest_angle, compliance) ==
    [ i |-> i, j |-> j, k |-> k, l |-> l, rest_angle |-> rest_angle,
      compliance |-> compliance, lambda |-> 0 ]

\* ShapeMatchGroup::from_particles: rest positions relative to the centre of
\* mass of the current positions
ShapeMatchGroup_from_particles(indices, positions, stiffness) ==
    LET n   == Len(indices)
        com == VDivT(VSeqSum([k \in 1..n |-> positions[indices[k]]]), n)
    IN  IF n = 0
        THEN [ particle_indices |-> indices, rest_positions |-> <<>>,
               rest_com |-> ZERO, stiffness |-> stiffness ]
        ELSE [ particle_indices |-> indices,
               rest_positions   |-> [k \in 1..n |->
                                        VSub(positions[indices[k]], com)],
               rest_com         |-> com,
               stiffness        |-> stiffness ]

\* the particle of column x, row y of a sheet of the given width
cloth_index(start_idx, width, x, y) == start_idx + y * width + x

\* the cells (x, y), x < w, y < h, row by row
cloth_cells(w, h) ==
    IF w <= 0 \/ h <= 0 THEN <<>>
    ELSE [k \in 1..(w * h) |-> <<(k - 1) % w, (k - 1) \div w>>]

\* horizontal, vertical and the two diagonal distance constraints of a sheet
cloth_distance_constraints(start_idx, width, height, spacing, stiffness) ==
    LET ix(x, y) == cloth_index(start_idx, width, x, y)
        hcells == cloth_cells(width - 1, height)
        vcells == cloth_cells(width, height - 1)
        dcells == cloth_cells(width - 1, height - 1)
        diag   == ISqrt(2 * spacing * spacing)
    IN  [k \in 1..Len(hcells) |->
            DistanceConstraint_new(ix(hcells[k][1], hcells[k][2]),
                ix(hcells[k][1] + 1, hcells[k][2]), spacing, stiffness)]
        \o [k \in 1..Len(vcells) |->
            DistanceConstraint_new(ix(vcells[k][1], vcells[k][2]),
                ix(vcells[k][1], vcells[k][2] + 1), spacing, stiffness)]
        \o [k \in 1..Len(dcells) |->
            DistanceConstraint_new(ix(dcells[k][1], dcells[k][2]),
                ix(dcells[k][1] + 1, dcells[k][2] + 1), diag, stiffness)]
        \o [k \in 1..Len(dcells) |->
            DistanceConstraint_new(ix(dcells[k][1] + 1, dcells[k][2]),
                ix(dcells[k][1], dcells[k][2] + 1), diag, stiffness)]

\* the interior bending constraints of a sheet: one per quad, across the
\* diagonal its two triangles share
cloth_bending_constraints(start_idx, width, height, bending_stiffness) ==
    LET ix(x, y) == cloth_index(start_idx, width, x, y)
        dcells == cloth_cells(width - 1, height - 1)
    IN  [k \in 1..Len(dcells) |->
            BendingConstraint_new(ix(dcells[k][1], dcells[k][2]),
                ix(dcells[k][1] + 1, dcells[k][2] + 1),
                ix(dcells[k][1] + 1, dcells[k][2]),
                ix(dcells[k][1], dcells[k][2] + 1), 0, bending_stiffness)]

\* the particles start_idx .. start_idx + n - 1
index_run(start_idx, n) == {i \in Idx(start_idx + n) : i >= start_idx}

\* a create_cloth without the capacity check: the sheet is cut at the end of
\* the particle arrays, the constraints are not
create_cloth_unchecked(s, start_idx, width, height, spacing, stiffness, bending_stiffness) ==
    LET sheet == index_run(start_idx, width * height) \cap Idx(s.particles.count)
    IN  [s EXCEPT
          !.particles.phase = [i \in Idx(s.particles.count) |->
              IF i \in sheet THEN "Cloth" ELSE s.particles.phase[i]],
          !.distance_constraints = @ \o cloth_distance_constraints(
              start_idx, width, height, spacing, stiffness),
          !.bending_constraints = @ \o cloth_bending_constraints(
              start_idx, width, height, bending_stiffness)]

\* Solver::create_cloth: the sheet lies in the x-y plane, its first particle
\* at the origin (the specification fixes the spacing, not the placement)
create_cloth(s, start_idx, width, height, spacing, stiffness, bending_stiffness) ==
    LET sheet == index_run(start_idx, width * height)
    IN  IF start_idx + width * height > s.particles.count THEN s
        ELSE [s EXCEPT
          !.particles.phase = [i \in Idx(s.particles.count) |->
              IF i \in sheet THEN "Cloth" ELSE s.particles.phase[i]],
          !.particles.position = [i \in Idx(s.particles.count) |->
              IF i \in sheet
              THEN << ((i - start_idx) % width) * spacing,
                      ((i - start_idx) \div width) * spacing, 0 >>
              ELSE s.particles.position[i]],
          !.distance_constraints = @ \o cloth_distance_constraints(
              start_idx, width, height, spacing, stiffness),
          !.bending_constraints = @ \o cloth_bending_constraints(
              start_idx, width, height, bending_stiffness)]

\* Solver::create_rigid_body
create_rigid_body(s, start_idx, count, stiffness) ==
    LET body == index_run(start_idx, count)
    IN  IF start_idx + count > s.particles.count THEN s
        ELSE [s EXCEPT
          !.particles.phase = [i \in Idx(s.particles.count) |->
              IF i \in body THEN "Rigid" ELSE s.particles.phase[i]],
          !.shape_match_groups = Append(@, ShapeMatchGroup_from_particles(
              [k \in 1..count |-> start_idx + k - 1],
              s.particles.position, stiffness))]

\* a clear_constraints that drops the lists and keeps the phases
clear_constraints_lists(s) ==
    [s EXCEPT !.distance_constraints = <<>>,
              !.bending_constraints  = <<>>,
              !.shape_match_groups   = <<>>]

\* Solver::clear_constraints
clear_constraints(s) ==
    [s EXCEPT !.particles.phase = [i \in Idx(s.particles.count) |-> "Free"],
              !.distance_constraints = <<>>,
              !.bending_constraints  = <<>>,
              !.shape_match_groups   = <<>>]

\* a reinitialize that offsets the layout by the seed
reinitialize_seeded(p, seed) ==
    [p EXCEPT !.position = [i \in Idx(p.count) |->
                               VAdd(spiral_position(i, p.count), <<seed, 0, 0>>)],
              !.velocity = [i \in Idx(p.count) |-> ZERO]]

\* Solver::reinitialize(_seed) on the particles
reinitialize(p, seed) ==
    [p EXCEPT !.position = [i \in Idx(p.count) |-> spiral_position(i, p.count)],
              !.velocity = [i \in Idx(p.count) |-> ZERO]]

\* the Phase a host phase code stands for (PhysicsWorld::set_particle_phase)
phase_of_code(code) ==
    CASE code = 1 -> "Fluid"
      [] code = 2 -> "Cloth"
      [] code = 3 -> "Rigid"
      [] code = 4 -> "Granular"
      [] code = 5 -> "Gas"
      [] code = 6 -> "Static"
      [] OTHER    -> "Free"

set_particle_phase(p, index, code) ==
    IF index < p.count THEN [p EXCEPT !.phase[index] = phase_of_code(code)]
    ELSE p

set_particle_charge(p, index, charge) ==
    IF index < p.count THEN [p EXCEPT !.charge[index] = charge]
    ELSE p

\* ------------------------------------------------------------------------
\* A host that calls the topology interface of a Solver::new(TopologyCount)
\* ------------------------------------------------------------------------
ClothStarts == {0, 2}

ClothDims == {<<2, 2>>, <<1, 2>>, <<2, 3>>}

ClothSpacing == 4

RigidStarts == {2, 3}

RigidCounts == {1, 2}

PhaseIndices == {1, 4}

PhaseCodes == {1, 6}

ChargeIndices == {0, 4}

Seeds == {0, 1}

\* the values test_reinitialize_resets_positions writes to every particle
CorruptPosition == <<400, 400, 400>>

CorruptVelocity == <<2000, 2000, 2000>>

InitTopology ==
    /\ grid = SpatialHashGrid_new(SolverCellSize, Pow2(SolverTableBits), TopologyCount)
    /\ contacts = <<>>
    /\ particles = Solver_new(TopologyCount).particles
    /\ config = Solver_new(TopologyCount).config
    /\ distance_constraints = Solver_new(TopologyCount).distance_constraints
    /\ bending_constraints = Solver_new(TopologyCount).bending_constraints
    /\ shape_match_groups = Solver_new(TopologyCount).shape_match_groups
    /\ speed_multiplier = 1
    /\ pc = "idle"
    /\ sim_dt = 0
    /\ sub_dt = 0
    /\ substep = 0
    /\ iter = 0
    /\ steps = 0
    /\ trace = <<>>
    /\ snap = <<>>
    /\ iter_start = <<>>
    /\ configured = FALSE
    /\ host_calls = 0
    /\ last_call = [op |-> "none"]
    /\ before_call = Solver_new(TopologyCount)
    /\ ParkedGridVars
    /\ ParkedFluidVars
    /\ ParkedQualityVars
    /\ ParkedGravityVars
    /\ ParkedEmVars

\* what every call of the host does besides the call itself
TopologyCall(call, after) ==
    /\ pc = "idle"
    /\ host_calls < MaxTopologyCalls
    /\ host_calls' = host_calls + 1
    /\ last_call' = call
    /\ before_call' = SolverState
    /\ particles' = after.particles
    /\ config' = after.config
    /\ distance_constraints' = after.distance_constraints
    /\ bending_constraints' = after.bending_constraints
    /\ shape_match_groups' = after.shape_match_groups
    /\ UNCHANGED <<grid, contacts, speed_multiplier, pc, sim_dt, sub_dt, substep,
                   iter, trace, snap, iter_start, configured, gridVars,
                   fluidVars, qualityVars, gravityVars, emVars>>

CallCreateCloth ==
    /\ \E a \in ClothStarts, d \in ClothDims :
          TopologyCall([op |-> "create_cloth", start_idx |-> a,
                        width |-> d[1], height |-> d[2]],
                       create_cloth(SolverState, a, d[1], d[2], ClothSpacing, 0, 0))
    /\ UNCHANGED steps

CallCreateRigidBody ==
    /\ \E a \in RigidStarts, n \in RigidCounts :
          TopologyCall([op |-> "create_rigid_body", start_idx |-> a, count |-> n],
                       create_rigid_body(SolverState, a, n, 900))
    /\ UNCHANGED steps

CallClearConstraints ==
    /\ TopologyCall([op |-> "clear_constraints"], clear_constraints(SolverState))
    /\ UNCHANGED steps

CallReinitialize ==
    /\ \E seed \in Seeds :
          TopologyCall([op |-> "reinitialize", seed |-> seed],
                       [SolverState EXCEPT !.particles = reinitialize(@, seed)])
    /\ UNCHANGED steps

CallSetParticlePhase ==
    /\ \E i \in PhaseIndices, c \in PhaseCodes :
          TopologyCall([op |-> "set_particle_phase", index |-> i, code |-> c],
                       [SolverState EXCEPT !.particles = set_particle_phase(@, i, c)])
    /\ UNCHANGED steps

CallSetParticleCharge ==
    /\ \E i \in ChargeIndices :
          TopologyCall([op |-> "set_particle_charge", index |-> i],
                       [SolverState EXCEPT !.particles = set_particle_charge(@, i, 1)])
    /\ UNCHANGED steps

\* the host writes the public position and velocity arrays
HostWriteParticles ==
    /\ TopologyCall([op |-> "write_particles"],
          [SolverState EXCEPT
              !.particles.position = [i \in Idx(particles.count) |-> CorruptPosition],
              !.particles.velocity = [i \in Idx(particles.count) |-> CorruptVelocity]])
    /\ UNCHANGED steps

\* Solver::step(dt, time) with the default config (collisions disabled), the
\* whole call: targets, forces, Euler integration
CallStep ==
    /\ steps < MaxSteps
    /\ \E dt \in DtValues \ {0}, v \in Vels :
          TopologyCall([op |-> "step", dt |-> dt],
              [SolverState EXCEPT !.particles =
                  euler_integrate(
                      [step_entry(@, dt * speed_multiplier, steps + 1)
                          EXCEPT !.velocity = [i \in Idx(particles.count) |-> v]],
                      dt * speed_multiplier)])
    /\ steps' = steps + 1

NextTopology ==
    \/ CallCreateCloth
    \/ CallCreateRigidBody
    \/ CallClearConstraints
    \/ CallReinitialize
    \/ CallSetParticlePhase
    \/ CallSetParticleCharge
    \/ HostWriteParticles
    \/ CallStep

SpecTopology == InitTopology /\ [][NextTopology]_vars

\* ------------------------------------------------------------------------
\* Properties of the topology interface
\* ------------------------------------------------------------------------
\* every index a constraint list stores is a particle index
IndicesInRange ==
    /\ \A k \in DOMAIN distance_constraints :
          {distance_constraints[k].i, distance_constraints[k].j}
              \subseteq Idx(particles.count)
    /\ \A k \in DOMAIN bending_constraints :
          {bending_constraints[k].i, bending_constraints[k].j,
           bending_constraints[k].k, bending_constraints[k].l}
              \subseteq Idx(particles.count)
    /\ \A k \in DOMAIN shape_match_groups :
          Range(shape_match_groups[k].particle_indices) \subseteq Idx(particles.count)

ClothOverflows ==
    /\ last_call.op = "create_cloth"
    /\ last_call.start_idx + last_call.width * last_call.height
           > before_call.particles.count

RigidOverflows ==
    /\ last_call.op = "create_rigid_body"
    /\ last_call.start_idx + last_call.count > before_call.particles.count

\* C11: create_cloth with start_idx + width * height above the particle
\* count, and create_rigid_body with start_idx + count above it, return with
\* the solver as it was before the call (no constraint or group added, no
\* phase changed), and no constraint list ever stores an index outside
\* 0..particle_count.
ThmC11 ==
    /\ ClothOverflows => SolverState = before_call
    /\ RigidOverflows => SolverState = before_call
    /\ IndicesInRange

\* an overflowing create_cloth on a solver that already holds a sheet and a body
WitC11 ==
    /\ ClothOverflows
    /\ before_call.distance_constraints # <<>>
    /\ before_call.shape_match_groups # <<>>

\* C12: after clear_constraints every phase is Free and the distance,
\* bending and shape-match lists are empty, whatever calls came before.
ThmC12 ==
    last_call.op = "clear_constraints" =>
        /\ \A i \in Idx(particles.count) : particles.phase[i] = "Free"
        /\ distance_constraints = <<>>
        /\ bending_constraints = <<>>
        /\ shape_match_groups = <<>>

\* clear_constraints on a solver with Cloth and Rigid particles and
\* non-empty distance and shape-match lists
WitC12 ==
    /\ last_call.op = "clear_constraints"
    /\ \E i, j \in Idx(particles.count) :
          /\ before_call.particles.phase[i] = "Cloth"
          /\ before_call.particles.phase[j] = "Rigid"
    /\ before_call.distance_constraints # <<>>
    /\ before_call.shape_match_groups # <<>>

DefaultBudget == 8

\* frames under budget the controller waits before it restores quality
RestoreFrames == 30

\* the cap of the counter in the acceptable range
AcceptableCap == 15

AdaptiveQuality_new(max_substeps, max_iterations) ==
    [ budget_ms           |-> DefaultBudget,
      min_substeps        |-> 1,
      max_substeps        |-> max_substeps,
      min_iterations      |-> 1,
      max_iterations      |-> max_iterations,
      enabled             |-> FALSE,
      current_substeps    |-> max_substeps,
      current_iterations  |-> max_iterations,
      ema_ms              |-> 0,
      frames_under_budget |-> 0 ]

substeps(q) == IF q.enabled THEN q.current_substeps ELSE q.max_substeps

iterations(q) == IF q.enabled THEN q.current_iterations ELSE q.max_iterations

\* ema_ms * 0.7 + physics_ms * 0.3
ema_next(ema_ms, physics_ms) == (ema_ms * 7 + physics_ms * 3 + 5) \div 10

over_budget(q) == q.ema_ms > q.budget_ms

well_under_budget(q) == q.ema_ms * 10 < q.budget_ms * 6

\* an over-budget branch that lowers without looking at the minimum
update_over_budget_unclamped(q) ==
    [q EXCEPT !.frames_under_budget = 0,
              !.current_iterations = @ - 1]

\* an over-budget branch that lowers substeps first
update_over_budget_substeps_first(q) ==
    LET q0 == [q EXCEPT !.frames_under_budget = 0]
    IN  IF q.current_substeps > q.min_substeps
        THEN [q0 EXCEPT !.current_substeps = @ - 1]
        ELSE IF q.current_iterations > q.min_iterations
        THEN [q0 EXCEPT !.current_iterations = @ - 1]
        ELSE q0

\* the branch ema_ms > budget_ms
update_over_budget(q) ==
    LET q0 == [q EXCEPT !.frames_under_budget = 0]
    IN  IF q.current_iterations > q.min_iterations
        THEN [q0 EXCEPT !.current_iterations = @ - 1]
        ELSE IF q.current_substeps > q.min_substeps
        THEN [q0 EXCEPT !.current_substeps = @ - 1,
                        !.current_iterations = q.max_iterations]
        ELSE q0

\* a restore branch that does not wait
update_well_under_at_once(q) ==
    LET q0 == [q EXCEPT !.frames_under_budget = 0]
    IN  IF q.current_iterations < q.max_iterations
        THEN [q0 EXCEPT !.current_iterations = @ + 1]
        ELSE IF q.current_substeps < q.max_substeps
        THEN [q0 EXCEPT !.current_substeps = @ + 1,
                        !.current_iterations = q.min_iterations]
        ELSE q0

\* a restore branch that does not wait and adds a substep with iterations
\* left at the maximum
update_well_under_keeping_iterations(q) ==
    LET q0 == [q EXCEPT !.frames_under_budget = 0]
    IN  IF q.current_iterations < q.max_iterations
        THEN [q0 EXCEPT !.current_iterations = @ + 1]
        ELSE IF q.current_substeps < q.max_substeps
        THEN [q0 EXCEPT !.current_substeps = @ + 1]
        ELSE q0

\* a restore branch that raises iterations and never adds a substep
update_well_under_iterations_only(q) ==
    LET q1 == [q EXCEPT !.frames_under_budget = @ + 1]
        q0 == [q EXCEPT !.frames_under_budget = 0]
    IN  IF q1.frames_under_budget > RestoreFrames
        THEN (IF q.current_iterations < q.max_iterations
              THEN [q0 EXCEPT !.current_iterations = @ + 1]
              ELSE q0)
        ELSE q1

\* the branch ema_ms < budget_ms * 0.6
update_well_under(q) ==
    LET q1 == [q EXCEPT !.frames_under_budget = @ + 1]
        q0 == [q EXCEPT !.frames_under_budget = 0]
    IN  IF q1.frames_under_budget > RestoreFrames
        THEN (IF q.current_iterations < q.max_iterations
              THEN [q0 EXCEPT !.current_iterations = @ + 1]
              ELSE IF q.current_substeps < q.max_substeps
              THEN [q0 EXCEPT !.current_substeps = @ + 1,
                              !.current_iterations = q.min_iterations]
              ELSE q0)
        ELSE q1

\* an acceptable branch that counts without the cap
update_acceptable_uncapped(q) ==
    [q EXCEPT !.frames_under_budget = @ + 1]

\* the last branch: frames_under_budget.saturating_add(1).min(15)
update_acceptable(q) ==
    [q EXCEPT !.frames_under_budget = Min(@ + 1, AcceptableCap)]

\* update past the test of enabled
update_enabled(q, physics_ms) ==
    LET q1 == [q EXCEPT !.ema_ms = ema_next(@, physics_ms)]
    IN  IF over_budget(q1) THEN update_over_budget(q1)
        ELSE IF well_under_budget(q1) THEN update_well_under(q1)
        ELSE update_acceptable(q1)

\* an update that does not test enabled
update_always(q, physics_ms) == update_enabled(q, physics_ms)

\* AdaptiveQuality::update
update(q, physics_ms) ==
    IF ~q.enabled THEN q ELSE update_enabled(q, physics_ms)

\* ------------------------------------------------------------------------
\* A host that creates a controller, sets its public fields and feeds it
\* frame times
\* ------------------------------------------------------------------------
\* AdaptiveQuality::new(max_substeps, max_iterations) of the model
QualityMax == {<<2, 2>>, <<3, 1>>, <<3, 2>>}

\* the minimum the host may write, at most the maximum
QualityMin == {1, 2}

\* physics_ms: 2.0, 6.0 and 12.0 ms
UpdateValues == {2, 6, 12}

quality_changed(a, b) ==
    \/ a.current_substeps # b.current_substeps
    \/ a.current_iterations # b.current_iterations

quality_raised(a, b) ==
    \/ b.current_substeps > a.current_substeps
    \/ b.current_iterations > a.current_iterations

InitQuality ==
    /\ \E m \in QualityMax : aq = AdaptiveQuality_new(m[1], m[2])
    /\ aq_before = [q |-> aq, since |-> 0]
    /\ aq_input = 0
    /\ aq_since = 0
    /\ aq_stage = "created"
    /\ grid = SpatialHashGrid_new(GridCellSize, Pow2(1), MaxParticles)
    /\ contacts = <<>>
    /\ ParkedGridVars
    /\ ParkedSolverVars
    /\ ParkedFluidVars
    /\ ParkedHostVars
    /\ ParkedTopologyVars
    /\ ParkedGravityVars
    /\ ParkedEmVars

\* the host writes the public minimum fields before the first update
QualitySetMinimum ==
    /\ aq_stage = "created"
    /\ \E s \in QualityMin, k \in QualityMin :
          /\ s <= aq.max_substeps /\ k <= aq.max_iterations
          /\ aq' = [aq EXCEPT !.min_substeps = s, !.min_iterations = k]
    /\ aq_before' = [q |-> aq', since |-> 0]
    /\ aq_stage' = "configured"
    /\ UNCHANGED <<grid, contacts, gridVars, solverVars, fluidVars, hostVars,
                   topologyVars, gravityVars, emVars, aq_input, aq_since>>

\* aq.enabled = true / false
QualitySetEnabled ==
    /\ aq' = [aq EXCEPT !.enabled = ~@]
    /\ aq_before' = [q |-> aq', since |-> aq_since]
    /\ aq_stage' = "configured"
    /\ UNCHANGED <<grid, contacts, gridVars, solverVars, fluidVars, hostVars,
                   topologyVars, gravityVars, emVars, aq_input, aq_since>>

\* aq.update(physics_ms)
QualityUpdate ==
    /\ \E ms \in UpdateValues :
          /\ aq' = update(aq, ms)
          /\ aq_input' = ms
    /\ aq_before' = [q |-> aq, since |-> aq_since]
    /\ aq_since' = IF quality_changed(aq, aq') THEN 0
                   ELSE Min(aq_since + 1, RestoreFrames + 1)
    /\ aq_stage' = "updated"
    /\ UNCHANGED <<grid, contacts, gridVars, solverVars, fluidVars, hostVars,
                   topologyVars, gravityVars, emVars>>

NextQuality ==
    \/ QualitySetMinimum
    \/ QualitySetEnabled
    \/ QualityUpdate

SpecQuality == InitQuality /\ [][NextQuality]_vars

\* ------------------------------------------------------------------------
\* Properties of the adaptive quality controller
\* ------------------------------------------------------------------------
\* the latest action was an update of an enabled controller
EnabledUpdate == aq_stage = "updated" /\ aq_before.q.enabled

\* C14: a controller created with its minimum at most its maximum and then
\* enabled reports substeps() and iterations() between the minimum and the
\* maximum after any sequence of updates.
ThmC14 ==
    aq.enabled =>
        /\ aq.min_substeps <= substeps(aq) /\ substeps(aq) <= aq.max_substeps
        /\ aq.min_iterations <= iterations(aq) /\ iterations(aq) <= aq.max_iterations

\* an over-budget update of a controller that is already at both minimums,
\* below both maximums
WitC14 ==
    /\ EnabledUpdate /\ over_budget(aq)
    /\ aq_before.q.current_substeps = aq.min_substeps
    /\ aq_before.q.current_iterations = aq.min_iterations
    /\ aq.min_substeps < aq.max_substeps
    /\ substeps(aq) = aq.min_substeps /\ iterations(aq) = aq.min_iterations

\* C15: an enabled update whose EMA exceeds the budget lowers iterations by
\* one and keeps substeps while iterations is above its minimum; lowers
\* substeps by one and sets iterations to the maximum when iterations is at
\* its minimum and substeps above its minimum; changes neither at both
\* minimums; and substeps is lowered in no other case. The change is made by
\* that same update.
ThmC15 ==
    LET b == aq_before.q
    IN  /\ (EnabledUpdate /\ over_budget(aq)) =>
              /\ b.current_iterations > b.min_iterations =>
                    /\ aq.current_iterations = b.current_iterations - 1
                    /\ aq.current_substeps = b.current_substeps
              /\ (b.current_iterations = b.min_iterations
                      /\ b.current_substeps > b.min_substeps) =>
                    /\ aq.current_substeps = b.current_substeps - 1
                    /\ aq.current_iterations = b.max_iterations
              /\ (b.current_iterations = b.min_iterations
                      /\ b.current_substeps = b.min_substeps) =>
                    /\ aq.current_substeps = b.current_substeps
                    /\ aq.current_iterations = b.current_iterations
        /\ (aq_stage = "updated" /\ aq.current_substeps < b.current_substeps) =>
              /\ b.enabled /\ over_budget(aq)
              /\ b.current_iterations = b.min_iterations
              /\ b.current_substeps > b.min_substeps

\* the update that lowers substeps and sets iterations back to the maximum
WitC15 ==
    /\ EnabledUpdate /\ over_budget(aq)
    /\ aq.current_substeps = aq_before.q.current_substeps - 1
    /\ aq.current_iterations = aq.max_iterations
    /\ aq.max_iterations > aq.min_iterations

\* the restore branch acted: the EMA is below 0.6 of the budget, the counter
\* of frames under budget passes 30 at this update, which sets it to 0, and
\* at least 30 updates that changed nothing lie between this update and the
\* one that last changed substeps or iterations
RestoredAfterCoolDown ==
    /\ aq_before.q.enabled
    /\ well_under_budget(aq)
    /\ aq_before.q.frames_under_budget + 1 > RestoreFrames
    /\ aq.frames_under_budget = 0
    /\ aq_before.since >= RestoreFrames

ThmC17 ==
    /\ ~aq.enabled =>
          /\ substeps(aq) = aq.max_substeps
          /\ iterations(aq) = aq.max_iterations
    /\ (aq_stage = "updated" /\ ~aq_before.q.enabled) => aq = aq_before.q

\* an over-budget frame fed to a controller disabled after it lowered quality
WitC17 ==
    /\ aq_stage = "updated" /\ ~aq.enabled
    /\ aq_input = 12
    /\ aq.current_substeps < aq.max_substeps
    /\ aq.frames_under_budget > 0

\* C18: an enabled update whose EMA is between 0.6 of the budget and the
\* budget changes neither substeps nor iterations; of the other fields it
\* writes only the EMA and the counter of frames under budget, which becomes
\* the smaller of its successor and 15.
ThmC18 ==
    (EnabledUpdate /\ ~over_budget(aq) /\ ~well_under_budget(aq)) =>
        /\ aq.current_substeps = aq_before.q.current_substeps
        /\ aq.current_iterations = aq_before.q.current_iterations
        /\ aq.frames_under_budget =
               Min(aq_before.q.frames_under_budget + 1, AcceptableCap)
        /\ aq.frames_under_budget <= AcceptableCap
        /\ aq = [aq_before.q EXCEPT !.ema_ms = aq.ema_ms,
                                    !.frames_under_budget = aq.frames_under_budget]

\* an update in the acceptable range at which the cap takes effect
WitC18 ==
    /\ EnabledUpdate /\ ~over_budget(aq) /\ ~well_under_budget(aq)
    /\ aq_before.q.frames_under_budget >= AcceptableCap
    /\ aq.frames_under_budget = AcceptableCap
    /\ aq.current_iterations < aq.max_iterations

\* ------------------------------------------------------------------------
\* Barnes-Hut octree (forces/gravity.rs). Lengths are in hundredths of a
\* world unit; box midpoints are rounded down to that lattice.
\* ------------------------------------------------------------------------
\* the margin build_octree adds around the particles, 0.01
OctreeMargin == 1

\* the depth past which insert gives up
MaxDepth == 32

\* accelerations are carried in units of 1e-4 of G * mass / length^2
AccScale == 10000

\* An octree is a function from the path of a node (the octants taken from
\* the root, <<>> for the root) to the node; children[oct] of the node at
\* path is the node at Append(path, oct), None when that path is absent.
\* members is the set of particles whose mass total_mass holds.
new_leaf(pos, mass, idx) ==
    [ center_of_mass |-> pos,
      total_mass     |-> mass,
      bbox_min       |-> pos,
      bbox_max       |-> pos,
      particle_idx   |-> <<idx>>,
      members        |-> {idx} ]

new_internal(bbox_min, bbox_max) ==
    [ center_of_mass |-> ZERO,
      total_mass     |-> 0,
      bbox_min       |-> bbox_min,
      bbox_max       |-> bbox_max,
      particle_idx   |-> <<>>,
      members        |-> {} ]

\* (bbox_min + bbox_max) * 0.5
box_center(bbox_min, bbox_max) ==
    [k \in 1..3 |-> (bbox_min[k] + bbox_max[k]) \div 2]

octant(center, pos) ==
    (IF pos[1] >= center[1] THEN 1 ELSE 0)
    + (IF pos[2] >= center[2] THEN 2 ELSE 0)
    + (IF pos[3] >= center[3] THEN 4 ELSE 0)

\* bit k (1, 2, 4) of an octant
octant_bit(oct, k) == (oct \div k) % 2 = 1

\* <<cmin, cmax>> of a child octant
child_bounds(bbox_min, bbox_max, oct) ==
    LET center == box_center(bbox_min, bbox_max)
    IN  << [k \in 1..3 |-> IF octant_bit(oct, Pow2(k - 1))
                           THEN center[k] ELSE bbox_min[k]],
           [k \in 1..3 |-> IF octant_bit(oct, Pow2(k - 1))
                           THEN bbox_max[k] ELSE center[k]] >>

\* a leaf placed in a child octant of a box
child_leaf(bbox_min, bbox_max, oct, pos, mass, idx) ==
    LET b == child_bounds(bbox_min, bbox_max, oct)
    IN  [new_leaf(pos, mass, idx) EXCEPT !.bbox_min = b[1], !.bbox_max = b[2]]

\* self.children[oct] = Some(leaf)
set_child(tree, path, oct, leaf) == (Append(path, oct) :> leaf) @@ tree

\* a leaf is split into an internal node: its particle moves to a child
split_leaf(tree, path) ==
    LET node == tree[path]
        oct_existing ==
            octant(box_center(node.bbox_min, node.bbox_max), node.center_of_mass)
    IN  IF node.particle_idx = <<>> THEN tree
        ELSE set_child([tree EXCEPT ![path].particle_idx = <<>>], path,
                 oct_existing,
                 child_leaf(node.bbox_min, node.bbox_max, oct_existing,
                            node.center_of_mass, node.total_mass,
                            node.particle_idx[1]))

\* the update of the aggregate mass and the center of mass of a node
add_mass(tree, path, pos, mass, idx) ==
    [tree EXCEPT ![path] =
        [@ EXCEPT
            !.total_mass     = @ + mass,
            !.center_of_mass =
                VDivT(VAdd(VScale(tree[path].center_of_mass, tree[path].total_mass),
                           VScale(pos, mass)), tree[path].total_mass + mass),
            !.members        = @ \cup {idx}]]

\* an insert whose cap lets one more level through
RECURSIVE insert_deeper(_, _, _, _, _, _)
insert_deeper(tree, path, pos, mass, idx, depth) ==
    IF depth > MaxDepth + 1 THEN tree
    ELSE LET t   == split_leaf(tree, path)
             oct == octant(box_center(tree[path].bbox_min, tree[path].bbox_max), pos)
         IN  IF Append(path, oct) \in DOMAIN t
             THEN insert_deeper(add_mass(t, path, pos, mass, idx), Append(path, oct),
                                pos, mass, idx, depth + 1)
             ELSE add_mass(
                      set_child(t, path, oct,
                          child_leaf(tree[path].bbox_min, tree[path].bbox_max,
                                     oct, pos, mass, idx)),
                      path, pos, mass, idx)

\* OctreeNode::insert on the node at path. The boolean it returns is dropped
\* by every caller, and a node never reads its parent, so the parent's own
\* update is made before the call on the child.
RECURSIVE insert(_, _, _, _, _, _)
insert(tree, path, pos, mass, idx, depth) ==
    IF depth > MaxDepth THEN tree
    ELSE LET t   == split_leaf(tree, path)
             oct == octant(box_center(tree[path].bbox_min, tree[path].bbox_max), pos)
         IN  IF Append(path, oct) \in DOMAIN t
             THEN insert(add_mass(t, path, pos, mass, idx), Append(path, oct),
                         pos, mass, idx, depth + 1)
             ELSE add_mass(
                      set_child(t, path, oct,
                          child_leaf(tree[path].bbox_min, tree[path].bbox_max,
                                     oct, pos, mass, idx)),
                      path, pos, mass, idx)

\* OctreeNode::size
size(node) ==
    LET dd == VSub(node.bbox_max, node.bbox_min)
    IN  Max(Max(dd[1], dd[2]), dd[3])

RECURSIVE build_octree_from(_, _, _, _)
build_octree_from(tree, positions, i, count) ==
    IF i >= count THEN tree
    ELSE build_octree_from(insert(tree, <<>>, positions[i], 1, i, 0),
                           positions, i + 1, count)

\* the componentwise minimum / maximum of the first count positions
RECURSIVE bbox_fold(_, _, _, _, _)
bbox_fold(positions, i, count, acc, take_max) ==
    IF i >= count THEN acc
    ELSE bbox_fold(positions, i + 1, count,
             [k \in 1..3 |-> IF take_max THEN Max(acc[k], positions[i][k])
                             ELSE Min(acc[k], positions[i][k])],
             take_max)

\* build_octree: <<>> stands for None, <<tree>> for Some(root)
build_octree(positions, count) ==
    IF count = 0 THEN <<>>
    ELSE LET margin == <<OctreeMargin, OctreeMargin, OctreeMargin>>
             bmin == VSub(bbox_fold(positions, 1, count, positions[0], FALSE), margin)
             bmax == VAdd(bbox_fold(positions, 1, count, positions[0], TRUE), margin)
         IN  <<build_octree_from(<<>> :> new_internal(bmin, bmax),
                                 positions, 0, count)>>

\* node.center_of_mass - pos and its softened squared length
node_diff(node, pos) == VSub(node.center_of_mass, pos)

node_dist_sq(node, pos, softening_sq) ==
    Dot(node_diff(node, pos), node_diff(node, pos)) + softening_sq

\* is_leaf || s * s / dist_sq < theta * theta, theta in tenths. A zero
\* dist_sq makes the quotient infinite or NaN and the comparison false.
use_approximation(node, pos, theta, softening_sq) ==
    \/ node.particle_idx # <<>>
    \/ /\ node_dist_sq(node, pos, softening_sq) > 0
       /\ size(node) * size(node) * 100
              < theta * theta * node_dist_sq(node, pos, softening_sq)

\* diff * (g * total_mass / (dist_sq * dist)), added when dist > 1e-8
point_mass_acc(node, pos, softening_sq, g) ==
    LET dist_sq == node_dist_sq(node, pos, softening_sq)
        dist    == ISqrt(dist_sq * 10000)
    IN  IF dist >= Tiny
        THEN VDivT(VScale(node_diff(node, pos), g * node.total_mass * AccScale * 100),
                   dist_sq * dist)
        ELSE ZERO

\* the paths of the children of a node, in the order they are pushed
RECURSIVE child_paths_from(_, _, _)
child_paths_from(tree, path, oct) ==
    IF oct > 7 THEN <<>>
    ELSE (IF Append(path, oct) \in DOMAIN tree THEN <<Append(path, oct)>> ELSE <<>>)
         \o child_paths_from(tree, path, oct + 1)

\* the loop of traverse_octree: stack holds the paths of the nodes to visit,
\* out.acc is the acceleration, out.used the paths of the nodes taken as
\* point masses, out.visited the paths popped, in the order of the pops
RECURSIVE traverse_loop(_, _, _, _, _, _, _, _)
traverse_loop(tree, stack, out, pos, particle_idx, theta, softening_sq, g) ==
    IF stack = <<>> THEN out
    ELSE LET path == stack[Len(stack)]
             rest == SubSeq(stack, 1, Len(stack) - 1)
             seen == [out EXCEPT !.visited = Append(@, path)]
         IN  IF \/ tree[path].particle_idx = <<particle_idx>>
                \/ tree[path].total_mass < Tiny
             THEN traverse_loop(tree, rest, seen, pos, particle_idx, theta,
                                softening_sq, g)
             ELSE IF use_approximation(tree[path], pos, theta, softening_sq)
             THEN traverse_loop(tree, rest,
                      [seen EXCEPT
                          !.acc  = VAdd(@, point_mass_acc(tree[path], pos,
                                                          softening_sq, g)),
                          !.used = Append(@, path)],
                      pos, particle_idx, theta, softening_sq, g)
             ELSE traverse_loop(tree, rest \o child_paths_from(tree, path, 0),
                      seen, pos, particle_idx, theta, softening_sq, g)

\* the run of the loop from the root
traversal(tree, pos, particle_idx, theta, softening_sq, g) ==
    traverse_loop(tree, << <<>> >>,
                  [acc |-> ZERO, used |-> <<>>, visited |-> <<>>],
                  pos, particle_idx, theta, softening_sq, g)

traverse_octree(tree, pos, particle_idx, theta, softening_sq, g) ==
    traversal(tree, pos, particle_idx, theta, softening_sq, g).acc

\* the accelerations of particles i .. count - 1, one traversal each
RECURSIVE accels_from(_, _, _, _, _, _, _)
accels_from(tree, positions, i, count, theta, softening_sq, g) ==
    IF i >= count THEN <<>>
    ELSE (i :> traverse_octree(tree, positions[i], i, theta, softening_sq, g))
         @@ accels_from(tree, positions, i + 1, count, theta, softening_sq, g)

\* the loop over the particles: velocities[i] += accels[i] * dt
apply_accels(built, accs, velocities, count, dt) ==
    [ octree |-> built, accels |-> accs,
      velocities |-> [i \in DOMAIN velocities |->
          IF i < count THEN VAdd(velocities[i], VScale(accs[i], dt))
          ELSE velocities[i]] ]

\* the match on the result of build_octree and what follows it
apply_built(built, positions, velocities, count, g, softening, theta, dt) ==
    IF built = <<>>
    THEN [ octree |-> built, accels |-> <<>>, velocities |-> velocities ]
    ELSE apply_accels(built,
             accels_from(built[1], positions, 0, count, theta,
                         softening * softening, g),
             velocities, count, dt)

\* apply_nbody_gravity: [octree, accels, velocities]
apply_nbody_gravity(positions, velocities, count, g, softening, theta, dt) ==
    apply_built(build_octree(positions, count), positions, velocities, count,
                g, softening, theta, dt)

\* ------------------------------------------------------------------------
\* A caller of apply_nbody_gravity
\* ------------------------------------------------------------------------
GravityCount == 3

GravityPoints == {<<0, 0, 0>>, <<8, 0, 0>>, <<16, 8, 0>>}

\* theta in tenths: 0 (exact), 0.7 (the default), 2.0
GravityThetas == {0, 7, 20}

\* softening in hundredths of a world unit: 0 and 0.01 (the default)
GravitySoftenings == {0, 1}

InitGravity ==
    /\ nbody = [ positions  |-> [i \in Idx(GravityCount) |-> ZERO],
                 velocities |-> [i \in Idx(GravityCount) |-> ZERO],
                 count |-> 0, theta |-> 0, softening |-> 0 ]
    /\ octree = <<>>
    /\ accels = <<>>
    /\ nstage = "idle"
    /\ grid = SpatialHashGrid_new(GridCellSize, Pow2(1), MaxParticles)
    /\ contacts = <<>>
    /\ ParkedGridVars
    /\ ParkedSolverVars
    /\ ParkedFluidVars
    /\ ParkedHostVars
    /\ ParkedTopologyVars
    /\ ParkedQualityVars
    /\ ParkedEmVars

\* the caller fills the position array and picks the parameters
GravitySetup ==
    /\ nstage \in {"idle", "done"}
    /\ \E n \in 0..GravityCount, th \in GravityThetas, so \in GravitySoftenings :
         \E ps \in [Idx(n) -> GravityPoints] :
          nbody' = [ positions  |-> [i \in Idx(GravityCount) |->
                                        IF i < n THEN ps[i] ELSE ZERO],
                     velocities |-> [i \in Idx(GravityCount) |-> ZERO],
                     count |-> n, theta |-> th, softening |-> so ]
    /\ octree' = <<>>
    /\ accels' = <<>>
    /\ nstage' = "set"
    /\ UNCHANGED <<grid, contacts, gridVars, solverVars, fluidVars, hostVars,
                   topologyVars, qualityVars, emVars>>

\* apply_nbody_gravity(positions, velocities, count, 1.0, softening, theta, 1.0)
GravityApply ==
    /\ nstage = "set"
    /\ \E r \in {apply_nbody_gravity(nbody.positions, nbody.velocities,
                    nbody.count, 1, nbody.softening, nbody.theta, 1)} :
           /\ octree' = r.octree
           /\ accels' = r.accels
           /\ nbody' = [nbody EXCEPT !.velocities = r.velocities]
    /\ nstage' = "done"
    /\ UNCHANGED <<grid, contacts, gridVars, solverVars, fluidVars, hostVars,
                   topologyVars, qualityVars, emVars>>

NextGravity ==
    \/ GravitySetup
    \/ GravityApply

SpecGravity == InitGravity /\ [][NextGravity]_vars

\* ------------------------------------------------------------------------
\* Properties of the Barnes-Hut evaluation
\* ------------------------------------------------------------------------
\* the nodes the traversal for particle i takes as point masses
UsedNodes(i) ==
    LET used == traversal(octree[1], nbody.positions[i], i, nbody.theta,
                          nbody.softening * nbody.softening, 1).used
    IN  [k \in DOMAIN used |-> octree[1][used[k]]]

\* a particle as a point mass of its own
particle_node(j) == new_leaf(nbody.positions[j], 1, j)

\* the direct sum over every other particle
DirectSum(i) ==
    LET others == SelectSeq([k \in 1..nbody.count |-> k - 1], LAMBDA j : j # i)
    IN  VSeqSum([k \in 1..Len(others) |->
            point_mass_acc(particle_node(others[k]), nbody.positions[i],
                           nbody.softening * nbody.softening, 1)])

\* C19: whatever theta and the positions, no node that the traversal for
\* particle i takes as a point mass, and that adds to the acceleration, holds
\* the mass of particle i.
CexC19 ==
    (nstage = "done" /\ nbody.count > 0) =>
        \A i \in Idx(nbody.count) :
            \A k \in DOMAIN UsedNodes(i) :
                point_mass_acc(UsedNodes(i)[k], nbody.positions[i],
                               nbody.softening * nbody.softening, 1) # ZERO
                    => i \notin UsedNodes(i)[k].members

\* C20: with theta = 0 every point mass of a traversal is a leaf, the
\* traversal for particle i meets the leaf of every other particle, and the
\* acceleration is the direct sum over the other particles, coincident
\* particles included.
CexC20 ==
    (nstage = "done" /\ nbody.count > 0 /\ nbody.theta = 0) =>
        \A i \in Idx(nbody.count) :
            /\ \A k \in DOMAIN UsedNodes(i) : UsedNodes(i)[k].particle_idx # <<>>
            /\ \A j \in Idx(nbody.count) \ {i} :
                  \E k \in DOMAIN UsedNodes(i) : UsedNodes(i)[k].particle_idx = <<j>>
            /\ accels[i] = DirectSum(i)

\* the paths the traversal for particle i pops
VisitedPaths(i) ==
    traversal(octree[1], nbody.positions[i], i, nbody.theta,
              nbody.softening * nbody.softening, 1).visited

NoRepeat(seq) == \A a, b \in DOMAIN seq : a # b => seq[a] # seq[b]

\* C21: build_octree ends for every position set, coincident particles
\* included: no node lies deeper than one level below the cap (the call at
\* depth 33 returns at once), and the loop of traverse_octree ends having
\* popped every node at most once, each of them a node of the tree.
ThmC21 ==
    (nstage = "done" /\ nbody.count > 0) =>
        /\ \A path \in DOMAIN octree[1] : Len(path) <= MaxDepth + 1
        /\ \A i \in Idx(nbody.count) :
              /\ NoRepeat(VisitedPaths(i))
              /\ Range(VisitedPaths(i)) \subseteq DOMAIN octree[1]
              /\ Len(VisitedPaths(i)) <= Cardinality(DOMAIN octree[1])

\* two coincident particles drove the insertion to the cap
WitC21 ==
    /\ nstage = "done"
    /\ nbody.count >= 2
    /\ nbody.positions[0] = nbody.positions[1]
    /\ \E path \in DOMAIN octree[1] : Len(path) = MaxDepth + 1
    /\ Len(VisitedPaths(0)) > MaxDepth

\* ------------------------------------------------------------------------
\* apply_electromagnetic_forces (electromagnetic.rs)
\* ------------------------------------------------------------------------
cross(a, b) ==
    <<a[2] * b[3] - a[3] * b[2], a[3] * b[1] - a[1] * b[3], a[1] * b[2] - a[2] * b[1]>>

\* the velocity array as the order of the particles 0 .. count - 1
index_order(count) == [k \in 1..count |-> k - 1]

\* velocities[..count].to_vec(), or an empty Vec without a magnetic field
vel_snapshot(velocities, count, magnetic_field) ==
    IF Dot(magnetic_field, magnetic_field) >= Tiny
    THEN [i \in Idx(count) |-> velocities[i]]
    ELSE <<>>

\* a Lorentz term that reads the velocity array being written, at particle 0
lorentz_velocity_live(velocities, snapshot, i) == velocities[0]

\* the velocity the Lorentz term of particle i reads: vel_snapshot[i]
lorentz_velocity(velocities, snapshot, i) == snapshot[i]

\* the part of the inner loop for the pair (i, j): what is added to acc
coulomb_term(positions, charges, i, j, coulomb_k, softening_sq, max_range_sq) ==
    LET diff == VSub(positions[j], positions[i])
        dist_sq == Dot(diff, diff)
        dist_sq_soft == dist_sq + softening_sq
        dist == ISqrt(dist_sq_soft * 10000)
    IN  IF i = j \/ charges[j] = 0 \/ dist_sq > max_range_sq THEN ZERO
        ELSE VDivT(VScale(diff, -(coulomb_k * charges[i] * charges[j] * AccScale * 100)),
                   dist_sq_soft * dist)

\* the closure compute_acc; velocities is the array the caller is writing
compute_acc(positions, charges, velocities, snapshot, count, i, coulomb_k, magnetic_field, softening_sq, max_range_sq) ==
    IF charges[i] = 0 THEN ZERO
    ELSE VAdd(VSeqSum([k \in 1..count |->
                  coulomb_term(positions, charges, i, k - 1, coulomb_k,
                               softening_sq, max_range_sq)]),
              IF Dot(magnetic_field, magnetic_field) >= Tiny
              THEN VScale(cross(lorentz_velocity(velocities, snapshot, i),
                                magnetic_field), charges[i])
              ELSE ZERO)

\* the serial path: velocities[i] += compute_acc(i) * dt, the particles taken
\* in the order given from its k-th entry on
RECURSIVE em_serial_from(_, _, _, _, _, _, _, _, _, _, _, _)
em_serial_from(order, k, positions, charges, velocities, snapshot, count, coulomb_k, magnetic_field, softening_sq, max_range_sq, dt) ==
    IF k > Len(order) THEN velocities
    ELSE em_serial_from(order, k + 1, positions, charges,
             [velocities EXCEPT ![order[k]] =
                 VAdd(@, VScale(compute_acc(positions, charges, velocities,
                                    snapshot, count, order[k], coulomb_k,
                                    magnetic_field, softening_sq, max_range_sq),
                                dt))],
             snapshot, count, coulomb_k, magnetic_field, softening_sq,
             max_range_sq, dt)

\* the parallel path: every acceleration first, then the additions
em_parallel(positions, charges, velocities, snapshot, count, coulomb_k, magnetic_field, softening_sq, max_range_sq, dt) ==
    [i \in DOMAIN velocities |->
        IF i < count
        THEN VAdd(velocities[i],
                  VScale(compute_acc(positions, charges, velocities, snapshot,
                             count, i, coulomb_k, magnetic_field, softening_sq,
                             max_range_sq), dt))
        ELSE velocities[i]]

\* the call with the particles taken in a given order
em_in_order(order, positions, velocities, charges, count, coulomb_k, magnetic_field, softening, max_range, dt) ==
    em_serial_from(order, 1, positions, charges, velocities,
                   vel_snapshot(velocities, count, magnetic_field), count,
                   coulomb_k, magnetic_field, softening * softening,
                   max_range * max_range, dt)

\* apply_electromagnetic_forces as built without the parallel feature
apply_electromagnetic_forces(positions, velocities, charges, count, coulomb_k, magnetic_field, softening, max_range, dt) ==
    em_in_order(index_order(count), positions, velocities, charges, count,
                coulomb_k, magnetic_field, softening, max_range, dt)

\* apply_electromagnetic_forces as built with the parallel feature
apply_electromagnetic_forces_parallel(positions, velocities, charges, count, coulomb_k, magnetic_field, softening, max_range, dt) ==
    em_parallel(positions, charges, velocities,
                vel_snapshot(velocities, count, magnetic_field), count,
                coulomb_k, magnetic_field, softening * softening,
                max_range * max_range, dt)

\* the serial path of apply_nbody_gravity, the particles taken in a given
\* order from its k-th entry on: each traversal reads the tree and positions
RECURSIVE gravity_serial_from(_, _, _, _, _, _, _, _, _)
gravity_serial_from(order, k, tree, positions, velocities, g, softening_sq, theta, dt) ==
    IF k > Len(order) THEN velocities
    ELSE gravity_serial_from(order, k + 1, tree, positions,
             [velocities EXCEPT ![order[k]] =
                 VAdd(@, VScale(traverse_octree(tree, positions[order[k]],
                                    order[k], theta, softening_sq, g), dt))],
             g, softening_sq, theta, dt)

\* ------------------------------------------------------------------------
\* A caller of apply_electromagnetic_forces
\* ------------------------------------------------------------------------
EmCount == 3

\* particle i sits at (0.08 i, 0, 0); max_range 0.1 keeps 0 and 2 apart
EmSpacing == 8

EmMaxRange == 10

EmSoftening == 1

EmCharges == {-1, 0, 1}

EmVelocities == {ZERO, <<100, 0, 0>>}

EmFields == {ZERO, <<0, 0, 1>>}

\* the orders in which count particles can be taken
Orders(count) ==
    {o \in [1..count -> Idx(count)] : \A a, b \in 1..count : a # b => o[a] # o[b]}

InitEm ==
    /\ em = [ positions  |-> [i \in Idx(EmCount) |-> <<EmSpacing * i, 0, 0>>],
              velocities |-> [i \in Idx(EmCount) |-> ZERO],
              charges    |-> [i \in Idx(EmCount) |-> 0],
              count |-> 0, magnetic_field |-> ZERO ]
    /\ em_out = <<>>
    /\ estage = "idle"
    /\ grid = SpatialHashGrid_new(GridCellSize, Pow2(1), MaxParticles)
    /\ contacts = <<>>
    /\ ParkedGridVars
    /\ ParkedSolverVars
    /\ ParkedFluidVars
    /\ ParkedHostVars
    /\ ParkedTopologyVars
    /\ ParkedQualityVars
    /\ ParkedGravityVars

\* the caller fills the arrays and picks the field
EmSetup ==
    /\ estage \in {"idle", "done"}
    /\ \E n \in 0..EmCount, b \in EmFields :
         \E qs \in [Idx(n) -> EmCharges], vs \in [Idx(n) -> EmVelocities] :
          em' = [em EXCEPT
                    !.velocities = [i \in Idx(EmCount) |->
                                       IF i < n THEN vs[i] ELSE ZERO],
                    !.charges = [i \in Idx(EmCount) |->
                                    IF i < n THEN qs[i] ELSE 0],
                    !.count = n, !.magnetic_field = b]
    /\ em_out' = <<>>
    /\ estage' = "set"
    /\ UNCHANGED <<grid, contacts, gridVars, solverVars, fluidVars, hostVars,
                   topologyVars, qualityVars, gravityVars>>

\* apply_electromagnetic_forces(positions, velocities, charges, count, 1.0,
\* field, 0.01, 0.1, 1.0)
EmApply ==
    /\ estage = "set"
    /\ em_out' = apply_electromagnetic_forces(em.positions, em.velocities,
                     em.charges, em.count, 1, em.magnetic_field, EmSoftening,
                     EmMaxRange, 1)
    /\ estage' = "done"
    /\ UNCHANGED <<em, grid, contacts, gridVars, solverVars, fluidVars, hostVars,
                   topologyVars, qualityVars, gravityVars>>

NextEm ==
    \/ EmSetup
    \/ EmApply

SpecEm == InitEm /\ [][NextEm]_vars

\* C22: the velocities apply_electromagnetic_forces leaves are those of
\* the compute-all-then-apply path, and those of the serial path with the
\* particles taken in any order: no acceleration depends on a velocity
\* written earlier in the same call.
ThmC22 ==
    estage = "done" =>
        /\ em_out = apply_electromagnetic_forces_parallel(em.positions,
                        em.velocities, em.charges, em.count, 1,
                        em.magnetic_field, EmSoftening, EmMaxRange, 1)
        /\ \A o \in Orders(em.count) :
              em_out = em_in_order(o, em.positions, em.velocities, em.charges,
                           em.count, 1, em.magnetic_field, EmSoftening,
                           EmMaxRange, 1)

\* three charged moving particles in a magnetic field, all of them deflected
\* and the charged neighbours pushing each other
WitC22 ==
    /\ estage = "done"
    /\ em.count = 3
    /\ em.magnetic_field # ZERO
    /\ \A i \in Idx(3) : em.charges[i] # 0 /\ em.velocities[i] # ZERO
    /\ \A i \in Idx(3) : em_out[i] # em.velocities[i]
    /\ em_out[0][1] # em.velocities[0][1]
    /\ em_out[0][2] # em.velocities[0][2]

\* the same for apply_nbody_gravity, under SpecGravity: the velocities it
\* leaves are those of the serial path with the particles taken in any order
GravityOrderFree ==
    (nstage = "done" /\ nbody.count > 0) =>
        \A o \in Orders(nbody.count) :
            nbody.velocities =
                gravity_serial_from(o, 1, octree[1], nbody.positions,
                    [i \in Idx(GravityCount) |-> ZERO], 1,
                    nbody.softening * nbody.softening, nbody.theta, 1)

\* ------------------------------------------------------------------------
\* Bending constraints (constraints/bending.rs)
\* ------------------------------------------------------------------------
\* angles, rest angles and the multiplier of a bending constraint are in
\* milliradians; the gradients of the angle are in GradScale-ths per length
\* unit
GradScale == 100

\* atan(r / 1000) in milliradians for 0 <= r <= 1000
atan_unit(r) == (r * (785 + (273 * (1000 - r)) \div 1000)) \div 1000

\* y.atan2(x) in milliradians
atan2(y, x) ==
    LET ax == Abs(x)
        ay == Abs(y)
        hi == Max(ax, ay)
        lo == Min(ax, ay)
        at == atan_unit((lo * 1000) \div hi)
        a1 == IF ay > ax THEN 1571 - at ELSE at
        a2 == IF x < 0 THEN 3142 - a1 ELSE a1
    IN  IF hi = 0 THEN 0
        ELSE IF y < 0 THEN -a2 ELSE a2

\* the two normals are left unnormalized: both arguments of atan2 carry the
\* factor |n1| |n2|, which atan2 does not see
dihedral_angle(p1, p2, p3, p4) ==
    LET e     == VSub(p2, p1)
        e_len == Length(e)
        n1    == cross(VSub(p3, p1), VSub(p3, p2))
        n2    == cross(VSub(p4, p2), VSub(p4, p1))
        cos_angle == Dot(n1, n2)
        sin_angle == DivT(Dot(cross(n1, n2), e), e_len)
    IN  IF e_len < Tiny THEN 0
        ELSE IF Length(n1) < Tiny \/ Length(n2) < Tiny THEN 0
        ELSE atan2(sin_angle, cos_angle)

\* corrections[i] += v; correction_counts[i] += 1
add_correction(p, i, v) ==
    [p EXCEPT !.corrections[i] = VAdd(@, v), !.correction_counts[i] = @ + 1]

\* the same accumulation written to the predicted position
add_correction_to_predicted(p, i, v) ==
    [p EXCEPT !.predicted[i] = VAdd(@, v), !.correction_counts[i] = @ + 1]

\* one constraint of solve_bending_constraints without the test of the
\* summed inverse masses: the constraint is counted on its four particles
solve_bending_constraint_counting(st, m, dt) ==
    LET c == st.constraints[m]
        p == st.particles
    IN  [st EXCEPT !.particles =
            add_correction(add_correction(add_correction(add_correction(
                p, c.k, ZERO), c.l, ZERO), c.i, ZERO), c.j, ZERO)]

\* one constraint of solve_bending_constraints; st = [constraints, particles]
solve_bending_constraint(st, m, dt) ==
    LET c  == st.constraints[m]
        p  == st.particles
        p1 == p.predicted[c.i]
        p2 == p.predicted[c.j]
        p3 == p.predicted[c.k]
        p4 == p.predicted[c.l]
        angle_error == dihedral_angle(p1, p2, p3, p4) - c.rest_angle
        w_i == p.inv_mass[c.i]
        w_j == p.inv_mass[c.j]
        w_k == p.inv_mass[c.k]
        w_l == p.inv_mass[c.l]
        w_sum == w_i + w_j + w_k + w_l
        e   == VSub(p2, p1)
        e_len    == Length(e)
        e_len_sq == e_len * e_len
        n1  == cross(VSub(p3, p1), VSub(p3, p2))
        n2  == cross(VSub(p4, p2), VSub(p4, p1))
        n1_len_sq == Dot(n1, n1)
        n2_len_sq == Dot(n2, n2)
        grad_k == VDivT(VScale(n1, -(e_len * GradScale)), n1_len_sq)
        grad_l == VDivT(VScale(n2, -(e_len * GradScale)), n2_len_sq)
        \* in thousandths
        t_k == DivT(Dot(VSub(p3, p1), e) * 1000, e_len_sq)
        t_l == DivT(Dot(VSub(p4, p1), e) * 1000, e_len_sq)
        grad_i == VDivT(VAdd(VScale(grad_k, -(1000 - t_k)),
                             VScale(grad_l, -(1000 - t_l))), 1000)
        grad_j == VDivT(VAdd(VScale(grad_k, -t_k), VScale(grad_l, -t_l)), 1000)
        denom == w_k * Dot(grad_k, grad_k) + w_l * Dot(grad_l, grad_l)
                 + w_i * Dot(grad_i, grad_i) + w_j * Dot(grad_j, grad_j)
        \* compliance / dt^2 in the units of denom
        alpha_tilde  == DivT(DivT(c.compliance, dt * dt) * GradScale * GradScale,
                             1000)
        delta_lambda == DivT(-(angle_error * GradScale * GradScale
                               + alpha_tilde * c.lambda),
                             denom + alpha_tilde)
        move(grad, w) == VDivT(VScale(grad, delta_lambda * w), GradScale * 1000)
    IN  IF Abs(angle_error) < Tiny THEN st
        ELSE IF w_sum < Tiny THEN st
        ELSE IF e_len < Tiny THEN st
        ELSE IF n1_len_sq < Tiny \/ n2_len_sq < Tiny THEN st
        ELSE IF denom < Tiny THEN st
        ELSE [ constraints |->
                   [st.constraints EXCEPT ![m].lambda = @ + delta_lambda],
               particles |->
                   add_correction(add_correction(add_correction(add_correction(
                       p, c.k, move(grad_k, w_k)), c.l, move(grad_l, w_l)),
                       c.i, move(grad_i, w_i)), c.j, move(grad_j, w_j)) ]

RECURSIVE solve_bending_from(_, _, _)
solve_bending_from(st, m, dt) ==
    IF m > Len(st.constraints) THEN st
    ELSE solve_bending_from(solve_bending_constraint(st, m, dt), m + 1, dt)

solve_bending_constraints(constraints, p, dt) ==
    solve_bending_from([constraints |-> constraints, particles |-> p], 1, dt)

\* ------------------------------------------------------------------------
\* Shape matching (constraints/shape_matching.rs)
\* ------------------------------------------------------------------------
\* a Mat3 is the tuple of its three rows; its entries are in MatScale-ths
MatScale == 16

\* the iterations of polar_decomposition_iterative
PolarIterations == 10

Mat3_ZERO == <<ZERO, ZERO, ZERO>>

Mat3_IDENTITY == <<<<MatScale, 0, 0>>, <<0, MatScale, 0>>, <<0, 0, MatScale>>>>

\* Mat3::IDENTITY * 1e-6
Mat3_regularisation == <<<<Tiny, 0, 0>>, <<0, Tiny, 0>>, <<0, 0, Tiny>>>>

MAdd(a, b) == <<VAdd(a[1], b[1]), VAdd(a[2], b[2]), VAdd(a[3], b[3])>>

\* M = a * b^T
mat3_outer(a, b) == <<VScale(b, a[1]), VScale(b, a[2]), VScale(b, a[3])>>

\* r * v
mat3_mul_vec(r, v) == VDivT(<<Dot(r[1], v), Dot(r[2], v), Dot(r[3], v)>>, MatScale)

\* the matrix of cofactors: inverse().transpose() is cofactors / determinant
cofactors(r) ==
    LET minor(i, j) ==
            LET i1 == (i % 3) + 1
                i2 == ((i + 1) % 3) + 1
                j1 == (j % 3) + 1
                j2 == ((j + 1) % 3) + 1
            IN  DivT(r[i1][j1] * r[i2][j2] - r[i1][j2] * r[i2][j1], MatScale)
    IN  << <<minor(1, 1), minor(1, 2), minor(1, 3)>>,
           <<minor(2, 1), minor(2, 2), minor(2, 3)>>,
           <<minor(3, 1), minor(3, 2), minor(3, 3)>> >>

determinant(r) == DivT(Dot(r[1], cofactors(r)[1]), MatScale)

RECURSIVE polar_from(_, _)
polar_from(r, n) ==
    LET det     == determinant(r)
        cof     == cofactors(r)
        r_inv_t == [i \in 1 .. 3 |-> VDivT(VScale(cof[i], MatScale), det)]
        half    == [i \in 1 .. 3 |-> VDivT(VAdd(r[i], r_inv_t[i]), 2)]
    IN  IF n = 0 THEN r
        ELSE IF Abs(det) < Tiny THEN Mat3_IDENTITY
        ELSE polar_from(<<half[1], half[2], half[3]>>, n - 1)

polar_decomposition_iterative(a) == polar_from(a, PolarIterations)

\* the particles of a group that are not static, as positions 1..n of it
group_movable(group, p) ==
    {k \in 1 .. Len(group.particle_indices) :
        p.inv_mass[group.particle_indices[k]] # 0}

\* 1.0 / inv_mass
mass_of(w) == DivT(1, w)

RECURSIVE group_sum(_, _, _, _)
\* the sum over the movable particles k..n of the group of f[k]
group_sum(group, p, f, k) ==
    IF k > Len(group.particle_indices) THEN 0
    ELSE (IF k \in group_movable(group, p) THEN f[k] ELSE 0)
         + group_sum(group, p, f, k + 1)

group_vsum(group, p, f) ==
    << group_sum(group, p, [k \in DOMAIN f |-> f[k][1]], 1),
       group_sum(group, p, [k \in DOMAIN f |-> f[k][2]], 1),
       group_sum(group, p, [k \in DOMAIN f |-> f[k][3]], 1) >>

RECURSIVE shape_corrections(_, _, _, _, _)
\* step 4 of one group, from its particle k
shape_corrections(group, p, r, com, k) ==
    IF k > Len(group.particle_indices) THEN p
    ELSE LET i    == group.particle_indices[k]
             goal == VAdd(mat3_mul_vec(r, group.rest_positions[k]), com)
             correction == VDivT(VScale(VSub(goal, p.predicted[i]),
                                        group.stiffness), 1000)
         IN  IF p.inv_mass[i] = 0
             THEN shape_corrections(group, p, r, com, k + 1)
             ELSE shape_corrections(group, add_correction(p, i, correction),
                                    r, com, k + 1)

\* one group of solve_shape_matching; stiffness is in thousandths
solve_shape_group(group, p) ==
    LET n   == Len(group.particle_indices)
        ix(k) == group.particle_indices[k]
        total_mass == group_sum(group, p,
                         [k \in 1 .. n |-> mass_of(p.inv_mass[ix(k)])], 1)
        com == VDivT(group_vsum(group, p,
                         [k \in 1 .. n |->
                             VScale(p.predicted[ix(k)], mass_of(p.inv_mass[ix(k)]))]),
                     total_mass)
        row(c) == group_vsum(group, p,
                         [k \in 1 .. n |->
                             VScale(group.rest_positions[k],
                                    VSub(p.predicted[ix(k)], com)[c]
                                    * mass_of(p.inv_mass[ix(k)]) * MatScale)])
        a_pq == MAdd(<<row(1), row(2), row(3)>>, Mat3_regularisation)
        r    == polar_decomposition_iterative(a_pq)
    IN  IF n = 0 THEN p
        ELSE IF total_mass < Tiny THEN p
        ELSE shape_corrections(group, p, r, com, 1)

RECURSIVE solve_shape_from(_, _, _)
solve_shape_from(groups, p, g) ==
    IF g > Len(groups) THEN p
    ELSE solve_shape_from(groups, solve_shape_group(groups[g], p), g + 1)

solve_shape_matching(groups, p) == solve_shape_from(groups, p, 1)

\* ------------------------------------------------------------------------
\* Shape targets (shapes/morph.rs)
\* ------------------------------------------------------------------------
\* particle i of solve_shape_targets with the correction written to the
\* predicted position
shape_target_moving(p, i, base_compliance, dt) ==
    add_correction_to_predicted(p, i, VSub(p.target_pos[i], p.predicted[i]))

\* particle i of solve_shape_targets; affinity is in thousandths
shape_target(p, i, base_compliance, dt) ==
    LET w_i      == p.inv_mass[i]
        affinity == p.target_weight[i]
        diff     == VSub(p.predicted[i], p.target_pos[i])
        dist     == Length(diff)
        compliance   == DivT(base_compliance * 1000, Max(affinity, 10))
        alpha_tilde  == DivT(compliance, dt * dt)
        delta_lambda == DivT(-(dist * 1000), w_i * 1000 + alpha_tilde)
        correction   == VDivT(VScale(diff, delta_lambda * w_i), dist)
    IN  IF w_i = 0 THEN p
        ELSE IF affinity < 10 THEN p
        ELSE IF dist < Tiny THEN p
        ELSE add_correction(p, i, correction)

RECURSIVE shape_targets_from(_, _, _, _)
shape_targets_from(p, i, base_compliance, dt) ==
    IF i >= p.count THEN p
    ELSE shape_targets_from(shape_target(p, i, base_compliance, dt), i + 1,
                            base_compliance, dt)

\* shape_strength is in thousandths
solve_shape_targets(p, shape_strength, compliance_at_zero, compliance_at_one, dt) ==
    LET base_compliance ==
            compliance_at_zero
            + DivT((compliance_at_one - compliance_at_zero) * shape_strength, 1000)
    IN  IF shape_strength < Tiny THEN p
        ELSE shape_targets_from(p, 0, base_compliance, dt)

\* ------------------------------------------------------------------------
\* The constraint solvers called on one particle set: a bent sheet of two
\* quads with static particles, contacts, distance and bending constraints,
\* shape-match groups, shape targets and a boundary
\* ------------------------------------------------------------------------
PassCount == 5

\* solver calls after the setup
MaxPassCalls == 3

PassTableBits == 3

PassBoundary == 3

PassStrengths == {0, 850}

PassCompliance == 256000

\* the sets of particles the scene starts with as static ones
PassStatics == {{}, {0, 2}, {0, 1, 2, 3, 4}}

\* the particles the host makes static between two solver calls
PassPins == {{0, 1, 2, 3}}

\* the heights of the two particles off the shared edges
PassHeights == {0, 2}

PassPhases ==
    { <<"Fluid", "Fluid", "Gas", "Free", "Fluid">>,
      <<"Cloth", "Cloth", "Fluid", "Rigid", "Static">> }

\* two quads that share the edge 1-3; further particles stand apart
PassPoints(z) ==
    [i \in Idx(PassCount) |->
        CASE i = 0 -> ZERO
          [] i = 1 -> <<3, 3, 0>>
          [] i = 2 -> <<3, 0, z>>
          [] i = 3 -> <<0, 3, 0>>
          [] i = 4 -> <<1, 6, 2>>
          [] OTHER -> <<4 * i, 4, 0>>]

PassScene(statics, z, phases) ==
    [ParticleSet_new(PassCount) EXCEPT
        !.predicted     = PassPoints(z),
        !.position      = [PassPoints(z) EXCEPT ![0] = <<-1, 0, 0>>],
        !.velocity      = [i \in Idx(PassCount) |-> <<40 * i, 0, 0>>],
        !.inv_mass      = [i \in Idx(PassCount) |-> IF i \in statics THEN 0 ELSE 1],
        !.phase         = [i \in Idx(PassCount) |->
                              IF i < Len(phases) THEN phases[i + 1] ELSE "Free"],
        !.target_pos    = [i \in Idx(PassCount) |-> <<0, 0, 3>>],
        !.target_weight = [i \in Idx(PassCount) |-> IF i = 3 THEN 0 ELSE 1000]]

PassSolverOps ==
    { "solve_contacts", "solve_distance_constraints", "solve_bending_constraints",
      "solve_density_constraints", "solve_shape_matching", "solve_shape_targets",
      "solve_boundary_constraint" }

InitPass ==
    /\ grid = SpatialHashGrid_new(FluidH, Pow2(PassTableBits), PassCount)
    /\ contacts = <<>>
    /\ particles = ParticleSet_new(PassCount)
    /\ config = [PhysicsConfig_default EXCEPT !.boundary_radius = PassBoundary,
                                              !.collisions_enabled = TRUE]
    /\ distance_constraints = <<>>
    /\ bending_constraints = <<>>
    /\ shape_match_groups = <<>>
    /\ speed_multiplier = 1
    /\ pc = "idle"
    /\ sim_dt = 0
    /\ sub_dt = 0
    /\ substep = 0
    /\ iter = 0
    /\ steps = 0
    /\ trace = <<>>
    /\ snap = <<>>
    /\ iter_start = <<>>
    /\ configured = FALSE
    /\ host_calls = 0
    /\ last_call = [op |-> "none"]
    /\ before_call = [ particles            |-> ParticleSet_new(PassCount),
                       distance_constraints |-> <<>>,
                       bending_constraints  |-> <<>> ]
    /\ ParkedGridVars
    /\ ParkedFluidVars
    /\ ParkedQualityVars
    /\ ParkedGravityVars
    /\ ParkedEmVars

\* the host fills the particle set and the constraint lists, builds the grid
\* on the predicted positions and detects the contacts, as the tests do
PassSetup ==
    /\ ~configured
    /\ \E statics \in PassStatics, z \in PassHeights, phases \in PassPhases :
        LET p == PassScene(statics, z, phases)
            g == build(grid, p.predicted, PassCount)
        IN  /\ particles' = p
            /\ grid' = g
            /\ contacts' = detect_contacts(p.predicted, p.radius, PassCount, g)
            /\ distance_constraints' =
                   << DistanceConstraint_new(0, 2, 1, 0),
                      DistanceConstraint_new(3, 4, 1, PassCompliance) >>
            /\ bending_constraints' =
                   << BendingConstraint_new(0, 1, 2, 3, 0, 0),
                      BendingConstraint_new(1, 3, 2, 4, 0, PassCompliance) >>
            /\ shape_match_groups' =
                   << ShapeMatchGroup_from_particles(<<0, 1, 2, 3>>,
                                                     PassPoints(0), 1000),
                      ShapeMatchGroup_from_particles(<<3, 4>>, PassPoints(0), 500),
                      ShapeMatchGroup_from_particles(<<>>, PassPoints(0), 1000) >>
    /\ configured' = TRUE
    /\ UNCHANGED <<config, speed_multiplier, pc, sim_dt, sub_dt, substep, iter, steps,
                   trace, snap, iter_start, host_calls, last_call, before_call,
                   gridVars, fluidVars, qualityVars, gravityVars, emVars>>

\* one solver call: what it leaves of the particle set and of the two lists
\* of constraints with a multiplier
PassCall(op, p, dcs, bcs) ==
    /\ configured
    /\ host_calls < MaxPassCalls
    /\ host_calls' = host_calls + 1
    /\ last_call' = [op |-> op]
    /\ before_call' = [ particles            |-> particles,
                        distance_constraints |-> distance_constraints,
                        bending_constraints  |-> bending_constraints ]
    /\ particles' = p
    /\ distance_constraints' = dcs
    /\ bending_constraints' = bcs
    /\ UNCHANGED <<grid, contacts, config, shape_match_groups, speed_multiplier,
                   pc, sim_dt, sub_dt, substep, iter, steps, trace, snap,
                   iter_start, configured, gridVars, fluidVars, qualityVars,
                   gravityVars, emVars>>

\* the host writes particles.inv_mass[i] = 0.0, as the tests do
PassPin ==
    \E pins \in PassPins :
        PassCall("pin",
                 [particles EXCEPT !.inv_mass =
                     [i \in Idx(PassCount) |-> IF i \in pins THEN 0 ELSE @[i]]],
                 distance_constraints, bending_constraints)

PassSolveContacts ==
    PassCall("solve_contacts",
             iter_solve_contacts(particles, contacts, config, HostDt),
             distance_constraints, bending_constraints)

PassSolveDistance ==
    \E r \in {solve_distance_constraints(distance_constraints, particles, HostDt)} :
        PassCall("solve_distance_constraints", r.particles, r.constraints,
                 bending_constraints)

PassSolveBending ==
    \E r \in {solve_bending_constraints(bending_constraints, particles, HostDt)} :
        PassCall("solve_bending_constraints", r.particles, distance_constraints,
                 r.constraints)

PassSolveDensity ==
    PassCall("solve_density_constraints",
             solve_density_constraints(particles, grid, FluidRestDensity, FluidH,
                                       TRUE),
             distance_constraints, bending_constraints)

PassSolveShapeMatching ==
    PassCall("solve_shape_matching",
             solve_shape_matching(shape_match_groups, particles),
             distance_constraints, bending_constraints)

PassSolveShapeTargets ==
    \E strength \in PassStrengths :
        PassCall("solve_shape_targets",
                 solve_shape_targets(particles, strength, PassCompliance, 0,
                                     HostDt),
                 distance_constraints, bending_constraints)

PassSolveBoundary ==
    PassCall("solve_boundary_constraint",
             solve_boundary_constraint(particles, config.boundary_radius),
             distance_constraints, bending_constraints)

NextPass ==
    \/ PassSetup
    \/ PassPin
    \/ PassSolveContacts
    \/ PassSolveDistance
    \/ PassSolveBending
    \/ PassSolveDensity
    \/ PassSolveShapeMatching
    \/ PassSolveShapeTargets
    \/ PassSolveBoundary

SpecPass == InitPass /\ [][NextPass]_vars

PassSolved == configured /\ last_call.op \in PassSolverOps

\* C23: no constraint solver writes predicted, position or velocity: after a
\* call of any of the seven solvers the three arrays are what they were
\* before it, no correction count went down, and a particle whose
\* accumulated correction changed had its count incremented
ThmC23 ==
    PassSolved =>
        LET b == before_call.particles
        IN  /\ particles.predicted = b.predicted
            /\ particles.position = b.position
            /\ particles.velocity = b.velocity
            /\ \A k \in Idx(PassCount) :
                /\ particles.correction_counts[k] >= b.correction_counts[k]
                /\ particles.corrections[k] # b.corrections[k]
                       => particles.correction_counts[k] > b.correction_counts[k]

\* a later solver call of a row of calls that moved the accumulated correction of a
\* particle
WitC23 ==
    /\ PassSolved
    /\ host_calls = MaxPassCalls
    /\ \E k \in Idx(PassCount) :
        /\ before_call.particles.correction_counts[k] > 0
        /\ particles.corrections[k] # before_call.particles.corrections[k]

\* every participant of the constraint is static: the inverse masses sum to
\* less than 1e-10
static_pair(p, c) == p.inv_mass[c.i] + p.inv_mass[c.j] < Tiny

static_quad(p, c) ==
    p.inv_mass[c.i] + p.inv_mass[c.j] + p.inv_mass[c.k] + p.inv_mass[c.l] < Tiny

\* C24: a distance, bending or contact constraint whose participants are
\* all static is skipped silently: the call leaves the particle set and the
\* multipliers of the other constraints as the same call does on the list
\* without the all-static constraints (no correction, no count from them;
\* the constraints after them are solved), and the multiplier of an
\* all-static distance or bending constraint is what it was
ThmC24 ==
    LET b == before_call
        movable_pair(c) == ~static_pair(b.particles, c)
        movable_quad(c) == ~static_quad(b.particles, c)
    IN  /\ (PassSolved /\ last_call.op = "solve_distance_constraints") =>
               LET r == solve_distance_constraints(
                            SelectSeq(b.distance_constraints, movable_pair),
                            b.particles, HostDt)
               IN  /\ particles = r.particles
                   /\ SelectSeq(distance_constraints, movable_pair) = r.constraints
                   /\ \A m \in 1 .. Len(distance_constraints) :
                          static_pair(b.particles, b.distance_constraints[m])
                              => distance_constraints[m] = b.distance_constraints[m]
        /\ (PassSolved /\ last_call.op = "solve_bending_constraints") =>
               LET r == solve_bending_constraints(
                            SelectSeq(b.bending_constraints, movable_quad),
                            b.particles, HostDt)
               IN  /\ particles = r.particles
                   /\ SelectSeq(bending_constraints, movable_quad) = r.constraints
                   /\ \A m \in 1 .. Len(bending_constraints) :
                          static_quad(b.particles, b.bending_constraints[m])
                              => bending_constraints[m] = b.bending_constraints[m]
        /\ (PassSolved /\ last_call.op = "solve_contacts") =>
               particles = iter_solve_contacts(b.particles,
                               SelectSeq(contacts, movable_pair), config, HostDt)

\* the first bending constraint is all static and keeps its multiplier, the
\* second one, behind it in the list, is solved
WitC24 ==
    /\ PassSolved
    /\ last_call.op = "solve_bending_constraints"
    /\ static_quad(particles, bending_constraints[1])
    /\ before_call.bending_constraints[1].lambda # 0
    /\ bending_constraints[2].lambda # before_call.bending_constraints[2].lambda
    /\ particles.correction_counts[4] > before_call.particles.correction_counts[4]

\* C25: solve_density_constraints applies to Fluid and Gas particles only:
\* density, lambda, corrections and correction_counts of a particle of any
\* other phase are what they were before the call, and the count of every
\* Fluid or Gas particle is one more than before it
ThmC25 ==
    (PassSolved /\ last_call.op = "solve_density_constraints") =>
        LET b == before_call.particles
        IN  \A i \in Idx(PassCount) :
                IF is_fluid_phase(particles.phase[i])
                THEN particles.correction_counts[i] = b.correction_counts[i] + 1
                ELSE /\ particles.density[i] = b.density[i]
                     /\ particles.lambda[i] = b.lambda[i]
                     /\ particles.corrections[i] = b.corrections[i]
                     /\ particles.correction_counts[i] = b.correction_counts[i]

\* a density solve after another solver left a correction and a count on a
\* particle that is not fluid, next to fluid particles with a density
WitC25 ==
    /\ PassSolved
    /\ last_call.op = "solve_density_constraints"
    /\ \E i, j \in Idx(PassCount) :
        /\ ~is_fluid_phase(particles.phase[i])
        /\ particles.corrections[i] # ZERO
        /\ particles.correction_counts[i] > 0
        /\ is_fluid_phase(particles.phase[j])
        /\ before_call.particles.correction_counts[j] > 0
        /\ particles.density[j] > 0
        /\ particles.lambda[j] # 0

\* ------------------------------------------------------------------------
\* The speed cap of apply_forces (solver.rs)
\* ------------------------------------------------------------------------
\* the cap of 18.0 world units per second
SpeedCap == 18

within_speed_cap(v) == Dot(v, v) <= (SpeedCap * LenScale) * (SpeedCap * LenScale)

\* C26: after a step with a non-zero sim_dt, on the single-pass path and on
\* the XPBD path, the speed of every particle is at most 18.0
CexC26 ==
    (pc = "idle" /\ (InEulerStep \/ InXpbdStep)) =>
        \A i \in Idx(SolverCount) : within_speed_cap(particles.velocity[i])

\* ------------------------------------------------------------------------
\* The controller under a host that calls update after every step
\* ------------------------------------------------------------------------
\* max_substeps * max_iterations
solver_work_max(q) == q.max_substeps * q.max_iterations

\* update is called after each step(), for as long as the simulation runs
\* the controller with the most notches to restore
InitQualityFair == InitQuality /\ solver_work_max(aq) = 6

SpecQualityFair == InitQualityFair /\ [][NextQuality]_vars /\ WF_vars(QualityUpdate)

\* an update of the enabled controller that leaves the EMA well under budget
WellUnderUpdate == QualityUpdate /\ aq.enabled /\ well_under_budget(aq')

AtMaxQuality ==
    /\ substeps(aq) = aq.max_substeps
    /\ iterations(aq) = aq.max_iterations

\* an update adds a substep only from iterations at its maximum, and leaves
\* iterations at its minimum
RestoreOrder ==
    (EnabledUpdate /\ aq.current_substeps > aq_before.q.current_substeps) =>
        /\ well_under_budget(aq)
        /\ aq_before.q.current_iterations = aq.max_iterations
        /\ aq.current_iterations = aq.min_iterations

\* C27: once every step is an update of the enabled controller that is well
\* under budget, the controller reaches substeps() = max_substeps and
\* iterations() = max_iterations and stays there; a substep is added only
\* when iterations is at its maximum, and iterations is then set to its
\* minimum
ThmC27 ==
    /\ []RestoreOrder
    /\ (<>[][WellUnderUpdate]_vars) => <>[]AtMaxQuality

\* the update that restores the last notch of a controller that had lost a
\* substep: substeps was added back with iterations at the minimum, and
\* iterations has now climbed to the maximum again
WitC27 ==
    /\ EnabledUpdate
    /\ well_under_budget(aq)
    /\ AtMaxQuality
    /\ aq.min_substeps < aq.max_substeps
    /\ aq.min_iterations < aq.max_iterations
    /\ aq_before.q.current_iterations < aq.max_iterations
    /\ aq_before.q.current_substeps = aq.max_substeps

\* substeps() * iterations(), the solver passes of one frame
solver_work(q) == substeps(q) * iterations(q)

\* C28: an enabled update whose EMA exceeds the budget never increases the
\* solver work per frame: substeps() * iterations() after the update is at
\* most its value before the update
CexC28 ==
    (EnabledUpdate /\ over_budget(aq)) =>
        solver_work(aq) <= solver_work(aq_before.q)

\* ---------------------------------------------------------------------------
\* The layout build leaves behind (grid.rs, build and query_neighbors)
\* ---------------------------------------------------------------------------

\* the bucket the latest build put particle i into
bucket_of(i) ==
    LET c == cell_coords(grid, gpositions[i])
    IN  hash_cell(grid.table_size, c[1], c[2], c[3])

\* the positions of sorted_indices bucket h covers
bucket_range(h) ==
    grid.cell_start[h] .. (grid.cell_start[h] + grid.cell_count[h] - 1)

RECURSIVE cell_count_sum(_)
cell_count_sum(h) ==
    IF h >= grid.table_size THEN 0 ELSE grid.cell_count[h] + cell_count_sum(h + 1)

\* C29: after any sequence of builds, for the latest build(positions, count):
\* sorted_indices[0..count) is a permutation of 0..count, the cell_count
\* entries sum to count, the ranges of distinct buckets are disjoint and each
\* holds exactly the particles whose cell hashes to that bucket; a query
\* reports no index >= count and no particle of another bucket left over
\* from an earlier build, and after a build with count 0 reports nothing.
ThmC29 ==
    /\ {grid.sorted_indices[k] : k \in Idx(gcount)} = Idx(gcount)
    /\ cell_count_sum(0) = gcount
    /\ \A h1 \in Idx(grid.table_size) : \A h2 \in Idx(grid.table_size) :
          h1 # h2 => bucket_range(h1) \cap bucket_range(h2) = {}
    /\ \A h \in Idx(grid.table_size) :
          /\ bucket_range(h) \subseteq Idx(gcount)
          /\ {grid.sorted_indices[k] : k \in bucket_range(h)} =
                 {i \in Idx(gcount) : bucket_of(i) = h}
          /\ Cardinality({i \in Idx(gcount) : bucket_of(i) = h}) =
                 grid.cell_count[h]
    /\ \A pos \in GridPoints :
          /\ Range(query_neighbors(grid, pos)) \subseteq Idx(gcount)
          /\ \A n \in 0 .. 26 :
                LET c == cell_coords(grid, pos)
                    o == block_offset(n)
                    h == hash_cell(grid.table_size,
                                   c[1] + o[1], c[2] + o[2], c[3] + o[3])
                IN  \A i \in Range(query_cell(grid, c, n)) : bucket_of(i) = h
          /\ gcount = 0 => query_neighbors(grid, pos) = <<>>

\* a build of one particle over a grid that held two in distinct buckets: the
\* slot behind the live range still names particle 1 of the earlier build
WitC29 ==
    /\ gcount = 1
    /\ grid.table_size > 1
    /\ grid.sorted_indices[0] = 0
    /\ grid.sorted_indices[1] = 1
    /\ \E h \in Idx(grid.table_size) :
          /\ h # bucket_of(0)
          /\ grid.cell_start[h] = 1
          /\ grid.cell_count[h] = 0
    /\ \E pos \in GridPoints : Range(query_neighbors(grid, pos)) = {0}

\* ---------------------------------------------------------------------------
\* The leaves and the aggregates build_octree leaves behind (gravity.rs)
\* ---------------------------------------------------------------------------

is_prefix(p, q) == Len(p) <= Len(q) /\ \A k \in 1 .. Len(p) : q[k] = p[k]

\* the leaves of the tree that hold particle i
leaf_holders(i) ==
    {q \in DOMAIN octree[1] : octree[1][q].particle_idx = <<i>>}

\* the particles stored in the leaves at or beneath the node at path
particles_beneath(path) ==
    {i \in Idx(nbody.count) :
        \E q \in leaf_holders(i) : is_prefix(path, q)}

\* the tree of positions without two equal ones
distinct_positions ==
    \A i, j \in Idx(nbody.count) : i # j => nbody.positions[i] # nbody.positions[j]

OctreeLeavesAndMass ==
    /\ \A i \in Idx(nbody.count) : Cardinality(leaf_holders(i)) = 1
    /\ \A path \in DOMAIN octree[1] :
          octree[1][path].particle_idx = <<>> =>
              octree[1][path].total_mass = Cardinality(particles_beneath(path))

\* with pairwise distinct positions every particle has its leaf and every
\* internal node the mass of the leaves beneath it
OctreeDistinct ==
    (nstage = "done" /\ nbody.count > 0 /\ distinct_positions) =>
        OctreeLeavesAndMass

\* C30: after build_octree(positions, count) every particle index in
\* 0..count is held by exactly one leaf and every internal node's total_mass
\* equals the number of particles stored in the leaves beneath it, also when
\* several particles share a position and the depth cap is hit.
CexC30 ==
    (nstage = "done" /\ nbody.count > 0) => OctreeLeavesAndMass

============================================================================
